---- MODULE Spec2Model ----
(***************************************************************************)
(* A model of the license scanner (StefanoA1/license-scanner): lock-file   *)
(* detection, the npm, yarn and pnpm lock-file parsers, the license        *)
(* detector, the two license normalizers, Scanner.Scan, which runs them    *)
(* in sequence, and Analyzer.Analyze, which rates a dependency list.       *)
(*                                                                         *)
(* Go strings that the code inspects character by character are sequences  *)
(* of one-character strings (<<"M","I","T">> is "MIT").  File names, the   *)
(* package-manager ids and the source tags are only compared as a whole    *)
(* and stay TLA+ strings.  Confidences are kept in tenths (9 is 0.9).      *)
(***************************************************************************)
EXTENDS Integers, Sequences, FiniteSets, TLC

VARIABLES
    fs,             \* the file system: lock files of the root, package directories, os.ReadDir of the pnpm store
    pc,             \* position of the operation that is running
    visited,        \* keys already produced by the running `range` over a Go map
    lockFilePath,   \* DetectLockFile: returned path (the file name under the root)
    packageManager, \* DetectLockFile: returned package-manager id
    dependencies,   \* the parser's `dependencies` slice
    enrichedDeps,   \* Scan's `enrichedDeps` slice
    currentPackage, \* YarnParser.Parse: the `currentPackage` pointer
    analysis,       \* Analyzer.Analyze: its local variables
    handles,        \* file handles that are open
    info,           \* detector: the *LicenseInfo of the running DetectLicense
    variant,        \* detector: index into LicenseFileVariants
    result,         \* value returned by the operation
    err,            \* error returned by the operation
    arg,            \* argument of the function under test
    ret             \* its return values, in call order

vars == <<fs, pc, visited, lockFilePath, packageManager, dependencies,
          enrichedDeps, currentPackage, analysis, handles, info, variant, result, err, arg, ret>>

NIL == "nil"

\* a Go pointer: <<>> is the nil pointer, <<x>> points to x
Ptr(x) == <<x>>

(***************************************************************************)
(* Bounds                                                                  *)
(***************************************************************************)
\* largest run of white space put on each side of a license string
MaxPad == 1

\* largest number of LICENSE/LICENCE variant names present in a package directory
MaxEntries == 2

\* deepest nesting of arrays in a package.json license field
MaxNest == 2

\* largest number of keys of the `packages` map of a package-lock.json
MaxKeys == 3

\* deepest nesting of the legacy `dependencies` tree below its top level
MaxDepth == 1

\* longest yarn.lock, in lines
MaxLines == 4

\* longest key of a pnpm-lock.yaml, in characters
MaxKeyLen == 7

\* longest run of one dependency at the head of Analyze's input
MaxRepeat == 6

\* number of further dependencies after that run
MaxDeps == 2

\* the longest list of mixed dependencies given to Analyze
MaxMixed == 4

(***************************************************************************)
(* strings                                                                 *)
(***************************************************************************)
UpperCase == <<"A","B","C","D","E","F","G","H","I","J","K","L","M",
               "N","O","P","Q","R","S","T","U","V","W","X","Y","Z">>

LowerCase == <<"a","b","c","d","e","f","g","h","i","j","k","l","m",
               "n","o","p","q","r","s","t","u","v","w","x","y","z">>

\* unicode.IsSpace, restricted to the characters of the model
IsSpace(c) == c \in {" ", "\t", "\n"}

\* strings.ToLower
ToLower(s) ==
    [i \in 1..Len(s) |->
        IF \E j \in 1..26 : UpperCase[j] = s[i]
        THEN LowerCase[CHOOSE j \in 1..26 : UpperCase[j] = s[i]]
        ELSE s[i]]

\* strings.TrimSpace
TrimSpace(s) ==
    LET keep == {i \in 1..Len(s) : ~IsSpace(s[i])}
    IN  IF keep = {} THEN <<>>
        ELSE LET lo == CHOOSE i \in keep : \A j \in keep : i <= j
                 hi == CHOOSE i \in keep : \A j \in keep : j <= i
             IN  SubSeq(s, lo, hi)

\* mutant: strings.Replace(s, old, new, 1), only the first occurrence
ReplaceAll_FirstOnly(s, old, new) ==
    IF \A i \in 1..Len(s) : s[i] # old THEN s
    ELSE LET k == CHOOSE i \in 1..Len(s) : s[i] = old /\ \A j \in 1..(i-1) : s[j] # old
         IN  SubSeq(s, 1, k - 1) \o new \o SubSeq(s, k + 1, Len(s))

\* strings.ReplaceAll(s, old, new) for a one-character old
RECURSIVE ReplaceAll(_, _, _)
ReplaceAll(s, old, new) ==
    IF s = <<>> THEN <<>>
    ELSE (IF Head(s) = old THEN new ELSE <<Head(s)>>) \o ReplaceAll(Tail(s), old, new)

\* strings.HasPrefix
HasPrefix(s, prefix) ==
    /\ Len(prefix) <= Len(s)
    /\ SubSeq(s, 1, Len(prefix)) = prefix

\* strings.Contains
Contains(s, substr) ==
    \E i \in 1..(Len(s) - Len(substr) + 1) : SubSeq(s, i, i + Len(substr) - 1) = substr

\* strings.Split(s, sep) for a one-character sep: always at least one part
RECURSIVE Split(_, _)
Split(s, sep) ==
    IF \A i \in 1..Len(s) : s[i] # sep THEN <<s>>
    ELSE LET k == CHOOSE i \in 1..Len(s) : s[i] = sep /\ \A j \in 1..(i-1) : s[j] # sep
         IN  <<SubSeq(s, 1, k - 1)>> \o Split(SubSeq(s, k + 1, Len(s)), sep)

(***************************************************************************)
(* canonical license ids                                                   *)
(***************************************************************************)
LicMIT == <<"M", "I", "T">>
LicApache20 == <<"A", "p", "a", "c", "h", "e", "-", "2", ".", "0">>
LicGPL30 == <<"G", "P", "L", "-", "3", ".", "0">>
LicGPL20 == <<"G", "P", "L", "-", "2", ".", "0">>
LicBSD3 == <<"B", "S", "D", "-", "3", "-", "C", "l", "a", "u", "s", "e">>
LicBSD2 == <<"B", "S", "D", "-", "2", "-", "C", "l", "a", "u", "s", "e">>
LicISC == <<"I", "S", "C">>
LicAGPL30 == <<"A", "G", "P", "L", "-", "3", ".", "0">>
LicLGPL30 == <<"L", "G", "P", "L", "-", "3", ".", "0">>
LicLGPL21 == <<"L", "G", "P", "L", "-", "2", ".", "1">>
UnknownLicense == <<"U", "n", "k", "n", "o", "w", "n">>

(***************************************************************************)
(* detector.normalizedLicense                                              *)
(***************************************************************************)
\* the switch on strings.ToLower(license): the canonical id of a synonym,
\* the (hyphenated) string itself in the default case
SynonymSwitch(license) ==
    LET l == ToLower(license) IN
    CASE l = <<"m","i","t">> -> LicMIT
      [] l \in { <<"a","p","a","c","h","e","-","2",".","0">>,
                 <<"a","p","a","c","h","e","2">>,
                 <<"a","p","a","c","h","e","-","v","2">> } -> LicApache20
      [] l \in { <<"g","p","l","-","3",".","0">>, <<"g","p","l","v","3">>,
                 <<"g","p","l","3">> } -> LicGPL30
      [] l \in { <<"g","p","l","-","2",".","0">>, <<"g","p","l","v","2">>,
                 <<"g","p","l","2">> } -> LicGPL20
      [] l \in { <<"b","s","d","-","3","-","c","l","a","u","s","e">>,
                 <<"b","s","d","3">> } -> LicBSD3
      [] l \in { <<"b","s","d","-","2","-","c","l","a","u","s","e">>,
                 <<"b","s","d","2">> } -> LicBSD2
      [] l = <<"i","s","c">> -> LicISC
      [] OTHER -> license

normalizedLicense(license) ==
    LET trimmed == TrimSpace(license) IN
    IF trimmed = <<>> THEN <<>>
    ELSE SynonymSwitch(ReplaceAll(trimmed, " ", <<"-">>))

(***************************************************************************)
(* analyzer.normalizeLicense                                               *)
(***************************************************************************)
\* mutant: the bare GPL rules are tried before the LGPL rules
normalizeLicense_GPLBeforeLGPL(license) ==
    LET normalized == TrimSpace(license)
        lower == ToLower(normalized)
    IN  IF Contains(lower, <<"a","p","a","c","h","e">>) THEN LicApache20
        ELSE IF Contains(lower, <<"a","g","p","l">>) THEN LicAGPL30
        ELSE IF Contains(lower, <<"g","p","l">>) /\ Contains(lower, <<"3">>) THEN LicGPL30
        ELSE IF Contains(lower, <<"g","p","l">>) /\ Contains(lower, <<"2">>) THEN LicGPL20
        ELSE IF Contains(lower, <<"l","g","p","l">>) /\ Contains(lower, <<"3">>) THEN LicLGPL30
        ELSE IF Contains(lower, <<"l","g","p","l">>) /\ Contains(lower, <<"2">>) THEN LicLGPL21
        ELSE normalized

normalizeLicense(license) ==
    LET normalized == TrimSpace(license)
        lower == ToLower(normalized)
    IN  IF Contains(lower, <<"a","p","a","c","h","e">>) THEN LicApache20
        ELSE IF Contains(lower, <<"a","g","p","l">>) THEN LicAGPL30
        ELSE IF Contains(lower, <<"l","g","p","l">>) /\ Contains(lower, <<"3">>) THEN LicLGPL30
        ELSE IF Contains(lower, <<"l","g","p","l">>) /\ Contains(lower, <<"2">>) THEN LicLGPL21
        ELSE IF Contains(lower, <<"g","p","l">>) /\ Contains(lower, <<"3">>) THEN LicGPL30
        ELSE IF Contains(lower, <<"g","p","l">>) /\ Contains(lower, <<"2">>) THEN LicGPL20
        ELSE normalized

(***************************************************************************)
(* JSON values of the package.json `license` field, as json.Unmarshal      *)
(* leaves them in an interface{}: a record [kind, val] where val is the    *)
(* string, the array's elements, or for an object <<v>> when the key       *)
(* "type" holds v and <<>> when the object has no such key.                *)
(***************************************************************************)
JNull == [kind |-> "null", val |-> <<>>]

JNumber == [kind |-> "number", val |-> <<>>]

JString(s) == [kind |-> "string", val |-> s]

JObject(typeEntry) == [kind |-> "object", val |-> typeEntry]

JArray(elems) == [kind |-> "array", val |-> elems]

\* mutant: the last element of an array is extracted instead of the first
RECURSIVE extractLicenseFromField_LastElement(_)
extractLicenseFromField_LastElement(licenseField) ==
    CASE licenseField.kind = "string" -> normalizedLicense(licenseField.val)
      [] licenseField.kind = "object" ->
            IF Len(licenseField.val) = 1 /\ licenseField.val[1].kind = "string"
            THEN normalizedLicense(licenseField.val[1].val)
            ELSE <<>>
      [] licenseField.kind = "array" ->
            IF Len(licenseField.val) > 0
            THEN extractLicenseFromField_LastElement(licenseField.val[Len(licenseField.val)])
            ELSE <<>>
      [] OTHER -> <<>>

\* detector.extractLicenseFromField
RECURSIVE extractLicenseFromField(_)
extractLicenseFromField(licenseField) ==
    CASE licenseField.kind = "string" -> normalizedLicense(licenseField.val)
      [] licenseField.kind = "object" ->
            IF Len(licenseField.val) = 1 /\ licenseField.val[1].kind = "string"
            THEN normalizedLicense(licenseField.val[1].val)
            ELSE <<>>
      [] licenseField.kind = "array" ->
            IF Len(licenseField.val) > 0
            THEN extractLicenseFromField(licenseField.val[1])
            ELSE <<>>
      [] OTHER -> <<>>

(***************************************************************************)
(* The file system seen through the FileSystem capability.                 *)
(*   fs.root : lock-file name -> state of that file in the project root    *)
(*   fs.dirs : install path -> package directory                           *)
(* A package directory is [packageJSON, entries]; entries maps each name   *)
(* of LicenseFileVariants to [kind, content], kind one of "absent", "dir", *)
(* "file", "openfail" (Stat succeeds, Open fails), "readfail" (Open        *)
(* succeeds, ReadAll fails); packageJSON is [kind, license] with kind one  *)
(* of "absent", "openfail", "readfail", "malformed", "valid".              *)
(***************************************************************************)
PackageJSONFile == "package.json"

\* mutant: the British spelling is probed first
LicenseFileVariants_LicenceFirst ==
    <<"LICENCE", "LICENCE.txt", "LICENCE.md", "LICENSE", "LICENSE.txt", "LICENSE.md">>

LicenseFileVariants ==
    <<"LICENSE", "LICENSE.txt", "LICENSE.md", "LICENCE", "LICENCE.txt", "LICENCE.md">>

LicenseFileSource == "LICENSE file"

PackageJSONSource == "package.json"

NotFoundSource == "not found"

VariantNames == {LicenseFileVariants[i] : i \in DOMAIN LicenseFileVariants}

AbsentEntry == [kind |-> "absent", content |-> <<>>]

MissingDir ==
    [packageJSON |-> [kind |-> "absent", license |-> JNull],
     entries |-> [n \in VariantNames |-> AbsentEntry]]

\* the directory at a path; nothing can be opened or stat'ed under a missing one
DirAt(path) == IF path \in DOMAIN fs.dirs THEN fs.dirs[path] ELSE MissingDir

\* fs.Open(path) succeeds (a directory opens too, its ReadAll fails)
OpenSucceeds(kind) == kind \in {"file", "readfail", "malformed", "valid", "dir"}

\* io.ReadAll succeeds on the opened file
ReadSucceeds(kind) == kind \in {"file", "malformed", "valid"}

\* fs.Stat(path) returns no error
StatSucceeds(kind) == kind # "absent"

\* info.IsDir() of a successful Stat
IsDir(kind) == kind = "dir"

(***************************************************************************)
(* LICENSE file contents are sequences of lines taken from a vocabulary;   *)
(* strings.ToLower and the regular expressions of analyzeLicenseFile are   *)
(* tabulated on that vocabulary (no pattern matches across two lines of    *)
(* it: `.` does not match a newline).                                      *)
(***************************************************************************)
stringsToLowerLine(line) ==
    CASE line = "MIT License" -> "mit license"
      [] line = "Licensed under the Apache License, Version 2.0 or the MIT license"
            -> "licensed under the apache license, version 2.0 or the mit license"
      [] line = "Version 3, 29 June 2007" -> "version 3, 29 june 2007"
      [] line = "Available under GPLv2 or GPLv3" -> "available under gplv2 or gplv3"
      [] line = "BSD 2-Clause License" -> "bsd 2-clause license"
      [] line = "Redistribution and use in source and binary forms are permitted provided that the following conditions are met"
            -> "redistribution and use in source and binary forms are permitted provided that the following conditions are met"
      [] line = "ISC License" -> "isc license"
      [] OTHER -> line

\* the `patterns` map: for each key, its confidence (in tenths) and the
\* lower-cased vocabulary lines its regular expression matches
patterns ==
    { [license |-> LicMIT, confidence |-> 9,
       matches |-> {"mit license",
                    "licensed under the apache license, version 2.0 or the mit license"}],
      [license |-> LicApache20, confidence |-> 9,
       matches |-> {"licensed under the apache license, version 2.0 or the mit license"}],
      [license |-> LicGPL30, confidence |-> 9,
       matches |-> {"version 3, 29 june 2007", "available under gplv2 or gplv3"}],
      [license |-> LicGPL20, confidence |-> 9,
       matches |-> {"available under gplv2 or gplv3"}],
      [license |-> LicBSD3, confidence |-> 8,
       matches |-> {"redistribution and use in source and binary forms are permitted provided that the following conditions are met"}],
      [license |-> LicBSD2, confidence |-> 8,
       matches |-> {"bsd 2-clause license"}],
      [license |-> LicISC, confidence |-> 8,
       matches |-> {"isc license"}] }

\* info.pattern.MatchString(content), content already lower-cased
MatchString(p, content) == \E i \in DOMAIN content : content[i] \in p.matches

\* content = strings.ToLower(string(data))
LowerContent(data) == [i \in DOMAIN data |-> stringsToLowerLine(data[i])]

\* mutant: a file that matches no pattern is reported with confidence 0.5
analyzeLicenseFile_HalfConfidence(data) ==
    LET content == LowerContent(data)
        matching == {p \in patterns : MatchString(p, content)}
    IN  IF matching = {}
        THEN {[license |-> UnknownLicense, confidence |-> 5]}
        ELSE {[license |-> p.license, confidence |-> p.confidence] : p \in matching}

\* The values analyzeLicenseFile can return for a file it has read.  The
\* loop ranges over a Go map, whose iteration order is unspecified: the
\* first matching entry met is returned, and any matching entry can be met
\* first.
analyzeLicenseFile(data) ==
    LET content == LowerContent(data)
        matching == {p \in patterns : MatchString(p, content)}
    IN  IF matching = {}
        THEN {[license |-> UnknownLicense, confidence |-> 2]}
        ELSE {[license |-> p.license, confidence |-> p.confidence] : p \in matching}

LicenseInfo(license, confidence, source) ==
    [License |-> license, Confidence |-> confidence, Source |-> source]

(***************************************************************************)
(* Detector.DetectLicense(arg)                                             *)
(***************************************************************************)
\* detectFromPackageJSON: d.fs.Open(packageJSONPath)
OpenPackageJSON ==
    /\ pc = "DetectLicense"
    /\ IF OpenSucceeds(DirAt(arg).packageJSON.kind)
       THEN /\ handles' = handles \cup {<<arg, PackageJSONFile>>}
            /\ pc' = "readPackageJSON"
            /\ UNCHANGED variant
       ELSE /\ pc' = "detectFromLicenseFile"
            /\ variant' = 1
            /\ UNCHANGED handles
    /\ UNCHANGED <<fs, analysis, enrichedDeps, currentPackage, visited, lockFilePath, packageManager, dependencies,
                   info, result, err, arg, ret>>

\* detectFromPackageJSON after the Open: ReadAll, Unmarshal, extraction,
\* and the deferred Close
ReadPackageJSON ==
    /\ pc = "readPackageJSON"
    /\ handles' = handles \ {<<arg, PackageJSONFile>>}
    /\ LET pj == DirAt(arg).packageJSON
           license == IF pj.kind = "valid" THEN extractLicenseFromField(pj.license) ELSE <<>>
       IN  IF ReadSucceeds(pj.kind) /\ pj.kind = "valid" /\ license # <<>>
           THEN /\ info' = Ptr(LicenseInfo(license, 10, PackageJSONSource))
                /\ pc' = "DetectLicense_return"
                /\ UNCHANGED variant
           ELSE /\ pc' = "detectFromLicenseFile"
                /\ variant' = 1
                /\ UNCHANGED info
    /\ UNCHANGED <<fs, analysis, enrichedDeps, currentPackage, visited, lockFilePath, packageManager, dependencies,
                   result, err, arg, ret>>

\* detectFromLicenseFile: one iteration of the loop over LicenseFileVariants,
\* up to the Open of analyzeLicenseFile
StatLicenseFile ==
    /\ pc = "detectFromLicenseFile"
    /\ variant <= Len(LicenseFileVariants)
    /\ LET filename == LicenseFileVariants[variant]
           entry == DirAt(arg).entries[filename]
       IN  IF StatSucceeds(entry.kind) /\ ~IsDir(entry.kind)
           THEN IF OpenSucceeds(entry.kind)
                THEN /\ handles' = handles \cup {<<arg, filename>>}
                     /\ pc' = "readLicenseFile"
                     /\ UNCHANGED <<info, variant>>
                ELSE /\ info' = Ptr(LicenseInfo(UnknownLicense, 2, LicenseFileSource))
                     /\ pc' = "DetectLicense_return"
                     /\ UNCHANGED <<handles, variant>>
           ELSE /\ variant' = variant + 1
                /\ UNCHANGED <<pc, handles, info>>
    /\ UNCHANGED <<fs, analysis, enrichedDeps, currentPackage, visited, lockFilePath, packageManager, dependencies,
                   result, err, arg, ret>>

\* analyzeLicenseFile after the Open: ReadAll, the pattern loop, the
\* deferred Close, and the LicenseInfo built by detectFromLicenseFile
ReadLicenseFile ==
    /\ pc = "readLicenseFile"
    /\ LET filename == LicenseFileVariants[variant]
           entry == DirAt(arg).entries[filename]
       IN  /\ handles' = handles \ {<<arg, filename>>}
           /\ \E r \in (IF ReadSucceeds(entry.kind)
                        THEN analyzeLicenseFile(entry.content)
                        ELSE {[license |-> UnknownLicense, confidence |-> 2]}) :
                 info' = Ptr(LicenseInfo(r.license, r.confidence, LicenseFileSource))
    /\ pc' = "DetectLicense_return"
    /\ UNCHANGED <<fs, analysis, enrichedDeps, currentPackage, visited, lockFilePath, packageManager, dependencies,
                   variant, result, err, arg, ret>>

\* mutant: the absence of every source is reported as an error
DefaultToUnknown_Fails ==
    /\ pc = "detectFromLicenseFile"
    /\ variant > 6
    /\ err' = "no license found"
    /\ pc' = "DetectLicense_return"
    /\ UNCHANGED <<fs, analysis, enrichedDeps, currentPackage, visited, lockFilePath, packageManager, dependencies,
                   handles, info, variant, result, arg, ret>>

\* DetectLicense: no source gave a result
DefaultToUnknown ==
    /\ pc = "detectFromLicenseFile"
    /\ variant > Len(LicenseFileVariants)
    /\ info' = Ptr(LicenseInfo(UnknownLicense, 0, NotFoundSource))
    /\ pc' = "DetectLicense_return"
    /\ UNCHANGED <<fs, analysis, enrichedDeps, currentPackage, visited, lockFilePath, packageManager, dependencies,
                   handles, variant, result, err, arg, ret>>

DetectLicenseNext ==
    \/ OpenPackageJSON
    \/ ReadPackageJSON
    \/ StatLicenseFile
    \/ ReadLicenseFile
    \/ DefaultToUnknown

(***************************************************************************)
(* parser.NPMParser.Parse(lockFilePath)                                    *)
(*                                                                         *)
(* A package-lock.json is [kind, content]; the content of a valid one is   *)
(* the unmarshalled NPMLockFile [Packages, Dependencies]: Packages maps a  *)
(* key to [Version, License]; Dependencies is a pointer to a map from a    *)
(* name to [Version, Dependencies] (<<>> when the JSON has no such key).   *)
(***************************************************************************)
PackageLockJSON == "package-lock.json"

Dependency(name, version, license) ==
    [Name |-> name, Version |-> version, License |-> license]

\* mutant: the scope alone is taken as the name of a scoped package
extractPackageName_ScopeOnly(packagePath) ==
    LET prefix == <<"n","o","d","e","_","m","o","d","u","l","e","s","/">> IN
    IF ~HasPrefix(packagePath, prefix) THEN <<>>
    ELSE Split(SubSeq(packagePath, Len(prefix) + 1, Len(packagePath)), "/")[1]

extractPackageName(packagePath) ==
    LET prefix == <<"n","o","d","e","_","m","o","d","u","l","e","s","/">> IN
    IF ~HasPrefix(packagePath, prefix) THEN <<>>
    ELSE LET name == SubSeq(packagePath, Len(prefix) + 1, Len(packagePath))
             parts == Split(name, "/")
         IN  IF Len(name) > 0 /\ name[1] = "@" /\ Len(parts) >= 2
             THEN parts[1] \o <<"/">> \o parts[2]
             ELSE parts[1]

\* every order in which `range` can produce the keys of a map
Orders(keys) ==
    {o \in [1..Cardinality(keys) -> keys] : \A i, j \in DOMAIN o : i # j => o[i] # o[j]}

\* mutant: nested maps are not descended into
parseLegacyDependencies_TopLevelOnly(deps) ==
    { [i \in 1..Len(o) |-> Dependency(o[i], deps[o[i]].Version, <<>>)] :
        o \in Orders(DOMAIN deps) }

\* The slices parseLegacyDependencies can return: each node is appended,
\* followed by the flattening of its nested map; the `range` over a map
\* produces the nodes of one level in any order (FlattenInOrder: in the
\* order o).
RECURSIVE parseLegacyDependencies(_), FlattenInOrder(_, _)
FlattenInOrder(deps, o) ==
    IF o = <<>> THEN {<<>>}
    ELSE LET name == Head(o)
             dep == deps[name]
             nested == IF dep.Dependencies # <<>>
                       THEN parseLegacyDependencies(dep.Dependencies[1])
                       ELSE {<<>>}
         IN  { <<Dependency(name, dep.Version, <<>>)>> \o t \o rest :
                 t \in nested, rest \in FlattenInOrder(deps, Tail(o)) }

parseLegacyDependencies(deps) ==
    UNION { FlattenInOrder(deps, o) : o \in Orders(DOMAIN deps) }

\* the lock file Parse was called with
LockFile == fs.root[lockFilePath]

\* p.fs.Open(lockFilePath)
NPMOpen ==
    /\ pc = "NPMParser.Parse"
    /\ IF OpenSucceeds(LockFile.kind)
       THEN /\ handles' = handles \cup {<<"root", lockFilePath>>}
            /\ pc' = "NPMParser.ReadAll"
            /\ UNCHANGED <<result, err>>
       ELSE /\ result' = <<>>
            /\ err' = "failed to open package-lock.json"
            /\ pc' = "Parse_return"
            /\ UNCHANGED handles
    /\ UNCHANGED <<fs, analysis, enrichedDeps, currentPackage, visited, lockFilePath, packageManager, dependencies,
                   info, variant, arg, ret>>

\* mutant: the file stays open when reading or parsing fails
NPMReadAll_LeaksOnError ==
    /\ pc = "NPMParser.ReadAll"
    /\ IF ReadSucceeds(LockFile.kind) /\ LockFile.kind = "valid"
       THEN /\ pc' = "NPMParser.packages"
            /\ visited' = {}
            /\ dependencies' = <<>>
            /\ UNCHANGED <<handles, result, err>>
       ELSE /\ result' = <<>>
            /\ err' = IF ReadSucceeds(LockFile.kind)
                      THEN "failed to parse package-lock.json"
                      ELSE "failed to read package-lock.json"
            /\ pc' = "Parse_return"
            /\ UNCHANGED <<handles, visited, dependencies>>
    /\ UNCHANGED <<fs, analysis, enrichedDeps, currentPackage, lockFilePath, packageManager, info, variant, arg, ret>>

\* io.ReadAll and json.Unmarshal; on failure the deferred Close runs
NPMReadAll ==
    /\ pc = "NPMParser.ReadAll"
    /\ IF ReadSucceeds(LockFile.kind) /\ LockFile.kind = "valid"
       THEN /\ pc' = "NPMParser.packages"
            /\ visited' = {}
            /\ dependencies' = <<>>
            /\ UNCHANGED <<handles, result, err>>
       ELSE /\ result' = <<>>
            /\ err' = IF ReadSucceeds(LockFile.kind)
                      THEN "failed to parse package-lock.json"
                      ELSE "failed to read package-lock.json"
            /\ handles' = handles \ {<<"root", lockFilePath>>}
            /\ pc' = "Parse_return"
            /\ UNCHANGED <<visited, dependencies>>
    /\ UNCHANGED <<fs, analysis, enrichedDeps, currentPackage, lockFilePath, packageManager, info, variant, arg, ret>>

\* one iteration of the loop over lockFile.Packages
NPMRangePackages ==
    /\ pc = "NPMParser.packages"
    /\ \E packagePath \in DOMAIN LockFile.content.Packages \ visited :
          LET pkg == LockFile.content.Packages[packagePath]
              name == extractPackageName(packagePath)
          IN  /\ visited' = visited \cup {packagePath}
              /\ dependencies' =
                    IF packagePath = <<>> \/ name = <<>> THEN dependencies
                    ELSE Append(dependencies, Dependency(name, pkg.Version, pkg.License))
    /\ UNCHANGED <<fs, analysis, enrichedDeps, currentPackage, pc, lockFilePath, packageManager, handles, info, variant,
                   result, err, arg, ret>>

\* after the loop: the legacy fallback, the return and the deferred Close
NPMReturn ==
    /\ pc = "NPMParser.packages"
    /\ visited = DOMAIN LockFile.content.Packages
    /\ \E deps \in (IF Len(dependencies) = 0 /\ LockFile.content.Dependencies # <<>>
                    THEN parseLegacyDependencies(LockFile.content.Dependencies[1])
                    ELSE {dependencies}) :
          /\ dependencies' = deps
          /\ result' = Ptr(deps)
    /\ err' = NIL
    /\ handles' = handles \ {<<"root", lockFilePath>>}
    /\ pc' = "Parse_return"
    /\ UNCHANGED <<fs, analysis, enrichedDeps, currentPackage, visited, lockFilePath, packageManager, info, variant, arg, ret>>

NPMParseNext ==
    \/ NPMOpen
    \/ NPMReadAll
    \/ NPMRangePackages
    \/ NPMReturn

(***************************************************************************)
(* parser.YarnParser.Parse(lockFilePath)                                   *)
(*                                                                         *)
(* The content of a yarn.lock is the sequence of its lines, as             *)
(* bufio.Scanner produces them.                                            *)
(***************************************************************************)
\* the position of the first occurrence of c in s, 0 when there is none
IndexOf(s, c) ==
    IF \E i \in 1..Len(s) : s[i] = c
    THEN CHOOSE i \in 1..Len(s) : s[i] = c /\ \A j \in 1..(i-1) : s[j] # c
    ELSE 0

\* s without its leading white space
TrimLeft(s) ==
    IF \A i \in 1..Len(s) : IsSpace(s[i]) THEN <<>>
    ELSE SubSeq(s, CHOOSE i \in 1..Len(s) : ~IsSpace(s[i]) /\ \A j \in 1..(i-1) : IsSpace(s[j]),
                Len(s))

\* the characters [^@\s"] of packageRe
IsNameChar(c) == c # "@" /\ ~IsSpace(c) /\ c # "\""

\* packageRe = ^"?([^@\s"]+|@[^/]+/[^@\s"]+)@([^"]*)"?:$
\* <<name>> (the first submatch) when the line matches, <<>> when it does not
packageRe(line) ==
    IF Len(line) < 1 \/ line[Len(line)] # ":" THEN <<>>
    ELSE
    LET body == SubSeq(line, 1, Len(line) - 1)
        s == IF body # <<>> /\ body[1] = "\"" THEN Tail(body) ELSE body
        slash == IndexOf(s, "/")
        at == IF s # <<>> /\ s[1] = "@"
              THEN (IF slash >= 3
                    THEN LET k == IndexOf(SubSeq(s, slash + 1, Len(s)), "@")
                         IN  IF k = 0 THEN 0 ELSE slash + k
                    ELSE 0)
              ELSE IndexOf(s, "@")
        from == IF s # <<>> /\ s[1] = "@" THEN slash + 1 ELSE 1
    IN  IF /\ at > from
           /\ \A j \in from..(at - 1) : IsNameChar(s[j])
           /\ \A j \in (at + 1)..(Len(s) - 1) : s[j] # "\""
        THEN <<SubSeq(s, 1, at - 1)>>
        ELSE <<>>

\* versionRe = ^\s+version\s+"([^"]+)"$
\* <<version>> (the submatch) when the line matches, <<>> when it does not
versionRe(line) ==
    LET word == <<"v","e","r","s","i","o","n">>
        a == TrimLeft(line)
        b == SubSeq(a, Len(word) + 1, Len(a))
        c == TrimLeft(b)
    IN  IF /\ Len(a) < Len(line)
           /\ HasPrefix(a, word)
           /\ Len(c) < Len(b)
           /\ Len(c) >= 3
           /\ c[1] = "\""
           /\ c[Len(c)] = "\""
           /\ \A j \in 2..(Len(c) - 1) : c[j] # "\""
        THEN <<SubSeq(c, 2, Len(c) - 1)>>
        ELSE <<>>

\* p.fs.Open(lockFilePath)
YarnOpen ==
    /\ pc = "YarnParser.Parse"
    /\ IF OpenSucceeds(LockFile.kind)
       THEN /\ handles' = handles \cup {<<"root", lockFilePath>>}
            /\ pc' = "YarnParser.Scan"
            /\ visited' = {}
            /\ dependencies' = <<>>
            /\ currentPackage' = <<>>
            /\ UNCHANGED <<result, err>>
       ELSE /\ result' = <<>>
            /\ err' = "failed to open yarn.lock"
            /\ pc' = "Parse_return"
            /\ UNCHANGED <<handles, visited, dependencies, currentPackage>>
    /\ UNCHANGED <<fs, analysis, enrichedDeps, lockFilePath, packageManager, info, variant, arg, ret>>

\* one iteration of the loop over the lines; visited holds the positions
\* of the lines already scanned
YarnScanLine ==
    /\ pc = "YarnParser.Scan"
    /\ Cardinality(visited) < Len(LockFile.content)
    /\ LET i == Cardinality(visited) + 1
           line == LockFile.content[i]
       IN  /\ visited' = visited \cup {i}
           /\ IF packageRe(line) # <<>>
              THEN /\ dependencies' = IF currentPackage # <<>>
                                      THEN Append(dependencies, currentPackage[1])
                                      ELSE dependencies
                   /\ currentPackage' = Ptr(Dependency(packageRe(line)[1], <<>>, <<>>))
              ELSE /\ UNCHANGED dependencies
                   /\ currentPackage' =
                         IF currentPackage # <<>> /\ versionRe(line) # <<>>
                         THEN Ptr([currentPackage[1] EXCEPT !.Version = versionRe(line)[1]])
                         ELSE currentPackage
    /\ UNCHANGED <<fs, analysis, enrichedDeps, pc, lockFilePath, packageManager, handles, info,
                   variant, result, err, arg, ret>>

\* mutant: the package open at the end of the input is not appended
YarnReturn_NoFlush ==
    /\ pc = "YarnParser.Scan"
    /\ Cardinality(visited) = Len(LockFile.content)
    /\ IF ReadSucceeds(LockFile.kind)
       THEN result' = Ptr(dependencies) /\ err' = NIL
       ELSE result' = <<>> /\ err' = "error reading yarn.lock"
    /\ handles' = handles \ {<<"root", lockFilePath>>}
    /\ pc' = "Parse_return"
    /\ UNCHANGED <<fs, analysis, enrichedDeps, currentPackage, visited, lockFilePath, packageManager,
                   dependencies, info, variant, arg, ret>>

\* after the loop: the last package, scanner.Err(), the return and the
\* deferred Close
YarnReturn ==
    /\ pc = "YarnParser.Scan"
    /\ Cardinality(visited) = Len(LockFile.content)
    /\ LET deps == IF currentPackage # <<>>
                   THEN Append(dependencies, currentPackage[1])
                   ELSE dependencies
       IN  /\ dependencies' = deps
           /\ IF ReadSucceeds(LockFile.kind)
              THEN result' = Ptr(deps) /\ err' = NIL
              ELSE result' = <<>> /\ err' = "error reading yarn.lock"
    /\ handles' = handles \ {<<"root", lockFilePath>>}
    /\ pc' = "Parse_return"
    /\ UNCHANGED <<fs, analysis, enrichedDeps, currentPackage, visited, lockFilePath, packageManager,
                   info, variant, arg, ret>>

YarnParseNext ==
    \/ YarnOpen
    \/ YarnScanLine
    \/ YarnReturn

(***************************************************************************)
(* parser.PnpmParser.Parse(lockFilePath)                                   *)
(*                                                                         *)
(* The content of a valid pnpm-lock.yaml is the set of keys of its         *)
(* `packages` map.                                                         *)
(***************************************************************************)
\* mutant: the pattern for scoped keys is left out
extractPnpmPackageInfo_NoScope(packageKey) ==
    LET key == IF packageKey # <<>> /\ packageKey[1] = "/" THEN Tail(packageKey) ELSE packageKey
        at == IndexOf(key, "@")
    IN  IF at >= 2 /\ at < Len(key)
        THEN <<SubSeq(key, 1, at - 1), SubSeq(key, at + 1, Len(key))>>
        ELSE << <<>>, <<>> >>

\* <<name, version>>, both empty when the key matches neither
\* ^(@[^/]+/[^@]+)@(.+)$ nor ^([^@]+)@(.+)$
extractPnpmPackageInfo(packageKey) ==
    LET key == IF packageKey # <<>> /\ packageKey[1] = "/" THEN Tail(packageKey) ELSE packageKey
        slash == IndexOf(key, "/")
        scopedAt == IF key # <<>> /\ key[1] = "@" /\ slash >= 3
                    THEN LET k == IndexOf(SubSeq(key, slash + 1, Len(key)), "@")
                         IN  IF k >= 2 THEN slash + k ELSE 0
                    ELSE 0
        at == IndexOf(key, "@")
    IN  IF scopedAt > 0 /\ scopedAt < Len(key)
        THEN <<SubSeq(key, 1, scopedAt - 1), SubSeq(key, scopedAt + 1, Len(key))>>
        ELSE IF at >= 2 /\ at < Len(key)
        THEN <<SubSeq(key, 1, at - 1), SubSeq(key, at + 1, Len(key))>>
        ELSE << <<>>, <<>> >>

\* p.fs.Open(lockFilePath)
PnpmOpen ==
    /\ pc = "PnpmParser.Parse"
    /\ IF OpenSucceeds(LockFile.kind)
       THEN /\ handles' = handles \cup {<<"root", lockFilePath>>}
            /\ pc' = "PnpmParser.ReadAll"
            /\ UNCHANGED <<result, err>>
       ELSE /\ result' = <<>>
            /\ err' = "failed to open pnpm-lock.yaml"
            /\ pc' = "Parse_return"
            /\ UNCHANGED handles
    /\ UNCHANGED <<fs, analysis, enrichedDeps, currentPackage, visited, lockFilePath, packageManager,
                   dependencies, info, variant, arg, ret>>

\* io.ReadAll and yaml.Unmarshal; on failure the deferred Close runs
PnpmReadAll ==
    /\ pc = "PnpmParser.ReadAll"
    /\ IF ReadSucceeds(LockFile.kind) /\ LockFile.kind = "valid"
       THEN /\ pc' = "PnpmParser.packages"
            /\ visited' = {}
            /\ dependencies' = <<>>
            /\ UNCHANGED <<handles, result, err>>
       ELSE /\ result' = <<>>
            /\ err' = IF ReadSucceeds(LockFile.kind)
                      THEN "failed to parse pnpm-lock.yaml"
                      ELSE "failed to read pnpm-lock.yaml"
            /\ handles' = handles \ {<<"root", lockFilePath>>}
            /\ pc' = "Parse_return"
            /\ UNCHANGED <<visited, dependencies>>
    /\ UNCHANGED <<fs, analysis, enrichedDeps, currentPackage, lockFilePath, packageManager, info,
                   variant, arg, ret>>

\* one iteration of the loop over lockFile.Packages
PnpmRangePackages ==
    /\ pc = "PnpmParser.packages"
    /\ \E packageKey \in LockFile.content \ visited :
          LET nv == extractPnpmPackageInfo(packageKey)
          IN  /\ visited' = visited \cup {packageKey}
              /\ dependencies' =
                    IF nv[1] = <<>> THEN dependencies
                    ELSE Append(dependencies, Dependency(nv[1], nv[2], <<>>))
    /\ UNCHANGED <<fs, analysis, enrichedDeps, currentPackage, pc, lockFilePath, packageManager, handles,
                   info, variant, result, err, arg, ret>>

\* after the loop: the return and the deferred Close
PnpmReturn ==
    /\ pc = "PnpmParser.packages"
    /\ visited = LockFile.content
    /\ result' = Ptr(dependencies)
    /\ err' = NIL
    /\ handles' = handles \ {<<"root", lockFilePath>>}
    /\ pc' = "Parse_return"
    /\ UNCHANGED <<fs, analysis, enrichedDeps, currentPackage, visited, lockFilePath, packageManager,
                   dependencies, info, variant, arg, ret>>

PnpmParseNext ==
    \/ PnpmOpen
    \/ PnpmReadAll
    \/ PnpmRangePackages
    \/ PnpmReturn

(***************************************************************************)
(* parser.DetectLockFile(fs, rootPath)                                     *)
(***************************************************************************)
rootPath == <<".">>

lockFiles ==
    ("package-lock.json" :> "npm") @@ ("yarn.lock" :> "yarn") @@ ("pnpm-lock.yaml" :> "pnpm")

\* one iteration of the loop over the lockFiles map, which produces a key
\* it has not produced yet
DetectLockFileRange ==
    /\ pc = "DetectLockFile"
    /\ \E filename \in DOMAIN lockFiles \ visited :
          IF StatSucceeds(fs.root[filename].kind)
          THEN /\ lockFilePath' = filename
               /\ packageManager' = lockFiles[filename]
               /\ err' = NIL
               /\ pc' = "DetectLockFile_return"
               /\ UNCHANGED visited
          ELSE /\ visited' = visited \cup {filename}
               /\ UNCHANGED <<lockFilePath, packageManager, err, pc>>
    /\ UNCHANGED <<fs, analysis, enrichedDeps, currentPackage, dependencies, handles, info, variant,
                   result, arg, ret>>

\* after the loop: no candidate exists
DetectLockFileNotExist ==
    /\ pc = "DetectLockFile"
    /\ visited = DOMAIN lockFiles
    /\ lockFilePath' = ""
    /\ packageManager' = ""
    /\ err' = "os.ErrNotExist"
    /\ pc' = "DetectLockFile_return"
    /\ UNCHANGED <<fs, analysis, enrichedDeps, currentPackage, visited, dependencies, handles, info,
                   variant, result, arg, ret>>

DetectLockFileNext ==
    \/ DetectLockFileRange
    \/ DetectLockFileNotExist

(***************************************************************************)
(* Scanner.resolvePackagePath                                              *)
(***************************************************************************)
NodeModulesDir == <<"n","o","d","e","_","m","o","d","u","l","e","s">>

PnpmStoreDir == <<".","p","n","p","m">>

\* strings.Join(elems, "/")
RECURSIVE JoinSlash(_)
JoinSlash(elems) ==
    IF elems = <<>> THEN <<>>
    ELSE IF Len(elems) = 1 THEN elems[1]
    ELSE elems[1] \o <<"/">> \o JoinSlash(Tail(elems))

\* filepath.Clean on the segments of a path: empty and "." segments are
\* dropped, ".." removes the segment before it
RECURSIVE CleanSegments(_, _, _)
CleanSegments(segs, out, rooted) ==
    IF segs = <<>> THEN out
    ELSE LET h == Head(segs) IN
         IF h = <<>> \/ h = <<".">> THEN CleanSegments(Tail(segs), out, rooted)
         ELSE IF h = <<".", ".">>
         THEN IF out # <<>> /\ out[Len(out)] # <<".", ".">>
              THEN CleanSegments(Tail(segs), SubSeq(out, 1, Len(out) - 1), rooted)
              ELSE IF rooted THEN CleanSegments(Tail(segs), out, rooted)
              ELSE CleanSegments(Tail(segs), Append(out, h), rooted)
         ELSE CleanSegments(Tail(segs), Append(out, h), rooted)

Clean(path) ==
    LET rooted == path # <<>> /\ path[1] = "/"
        kept == JoinSlash(CleanSegments(Split(path, "/"), <<>>, rooted))
    IN  IF rooted THEN <<"/">> \o kept
        ELSE IF kept = <<>> THEN <<".">>
        ELSE kept

\* filepath.Join: empty elements are ignored, the result is Cleaned
Join(elem) ==
    LET nonEmpty == SelectSeq(elem, LAMBDA e : e # <<>>)
    IN  IF nonEmpty = <<>> THEN <<>> ELSE Clean(JoinSlash(nonEmpty))

\* s.fs.Stat(path) returns no error: the path is a directory of the file
\* system or leads to one
pathExists(path) ==
    \E d \in DOMAIN fs.dirs : d = path \/ HasPrefix(d, path \o <<"/">>)

\* mutant: the hoisted node_modules/<name> is not tried for pnpm
resolvePackagePath_NoHoistedFallback(nodeModulesPath, manager, dep) ==
    IF manager = "pnpm"
    THEN LET pnpmStorePath == Join(<<nodeModulesPath, PnpmStoreDir>>)
             encodedName == ReplaceAll(dep.Name, "@", <<"%", "4", "0">>)
             candidates == << dep.Name \o <<"@">> \o dep.Version,
                              encodedName \o <<"@">> \o dep.Version >>
             pathOf(c) == Join(<<pnpmStorePath, c, NodeModulesDir, dep.Name>>)
             found == {i \in DOMAIN candidates : pathExists(pathOf(candidates[i]))}
             \* os.ReadDir(pnpmStorePath): the entries sorted by name, none on error
             entries == IF fs.store = <<>> THEN <<>> ELSE fs.store[1]
             hits == {i \in DOMAIN entries :
                        /\ entries[i].IsDir
                        /\ \/ HasPrefix(entries[i].Name, dep.Name \o <<"@">>)
                           \/ HasPrefix(entries[i].Name, encodedName \o <<"@">>)
                        /\ pathExists(pathOf(entries[i].Name))}
             first(S) == CHOOSE i \in S : \A j \in S : i <= j
         IN  IF found # {} THEN pathOf(candidates[first(found)])
             ELSE IF hits # {} THEN pathOf(entries[first(hits)].Name)
             ELSE pathOf(candidates[1])
    ELSE Join(<<nodeModulesPath, dep.Name>>)

resolvePackagePath(nodeModulesPath, manager, dep) ==
    IF manager = "pnpm"
    THEN LET pnpmStorePath == Join(<<nodeModulesPath, PnpmStoreDir>>)
             encodedName == ReplaceAll(dep.Name, "@", <<"%", "4", "0">>)
             candidates == << dep.Name \o <<"@">> \o dep.Version,
                              encodedName \o <<"@">> \o dep.Version >>
             pathOf(c) == Join(<<pnpmStorePath, c, NodeModulesDir, dep.Name>>)
             found == {i \in DOMAIN candidates : pathExists(pathOf(candidates[i]))}
             \* os.ReadDir(pnpmStorePath): the entries sorted by name, none on error
             entries == IF fs.store = <<>> THEN <<>> ELSE fs.store[1]
             hits == {i \in DOMAIN entries :
                        /\ entries[i].IsDir
                        /\ \/ HasPrefix(entries[i].Name, dep.Name \o <<"@">>)
                           \/ HasPrefix(entries[i].Name, encodedName \o <<"@">>)
                        /\ pathExists(pathOf(entries[i].Name))}
             fallbackPath == Join(<<nodeModulesPath, dep.Name>>)
             first(S) == CHOOSE i \in S : \A j \in S : i <= j
         IN  IF found # {} THEN pathOf(candidates[first(found)])
             ELSE IF hits # {} THEN pathOf(entries[first(hits)].Name)
             ELSE IF pathExists(fallbackPath) THEN fallbackPath
             ELSE pathOf(candidates[1])
    ELSE Join(<<nodeModulesPath, dep.Name>>)

(***************************************************************************)
(* Scanner.Scan()                                                          *)
(***************************************************************************)
DetectionFailedSource == "detection failed"

NoLockFileFound == "no lock file found in ."

\* fmt.Errorf("failed to parse lock file: %w", err)
FailedToParseLockFile(e) ==
    CASE e = "failed to open package-lock.json"
            -> "failed to parse lock file: failed to open package-lock.json"
      [] e = "failed to read package-lock.json"
            -> "failed to parse lock file: failed to read package-lock.json"
      [] e = "failed to parse package-lock.json"
            -> "failed to parse lock file: failed to parse package-lock.json"
      [] e = "failed to open yarn.lock"
            -> "failed to parse lock file: failed to open yarn.lock"
      [] e = "error reading yarn.lock"
            -> "failed to parse lock file: error reading yarn.lock"
      [] e = "failed to open pnpm-lock.yaml"
            -> "failed to parse lock file: failed to open pnpm-lock.yaml"
      [] e = "failed to read pnpm-lock.yaml"
            -> "failed to parse lock file: failed to read pnpm-lock.yaml"
      [] e = "failed to parse pnpm-lock.yaml"
            -> "failed to parse lock file: failed to parse pnpm-lock.yaml"

\* mutant: the version field receives the name
EnrichedDependency_NameAsVersion(dep, licenseInfo) ==
    [Name |-> dep.Name, Version |-> dep.Name, License |-> licenseInfo.License,
     Confidence |-> licenseInfo.Confidence, Source |-> licenseInfo.Source]

EnrichedDependency(dep, licenseInfo) ==
    [Name |-> dep.Name, Version |-> dep.Version, License |-> licenseInfo.License,
     Confidence |-> licenseInfo.Confidence, Source |-> licenseInfo.Source]

ScanResult(deps) == [Dependencies |-> deps]

\* the call of parser.DetectLockFile
ScanStart ==
    /\ pc = "Scan"
    /\ pc' = "DetectLockFile"
    /\ visited' = {}
    /\ UNCHANGED <<fs, analysis, enrichedDeps, currentPackage, lockFilePath, packageManager, dependencies,
                   handles, info, variant, result, err, arg, ret>>

\* DetectLockFile has returned: the error return, or the choice of the
\* parser and the call of its Parse
ScanAfterDetect ==
    /\ pc = "DetectLockFile_return"
    /\ IF err # NIL
       THEN /\ result' = <<>>
            /\ err' = NoLockFileFound
            /\ pc' = "Scan_return"
       ELSE IF packageManager \in {"npm", "pnpm", "yarn"}
       THEN /\ pc' = CASE packageManager = "npm" -> "NPMParser.Parse"
                        [] packageManager = "pnpm" -> "PnpmParser.Parse"
                        [] packageManager = "yarn" -> "YarnParser.Parse"
            /\ UNCHANGED <<result, err>>
       ELSE /\ result' = <<>>
            /\ err' = "unsupported package manager"
            /\ pc' = "Scan_return"
    /\ UNCHANGED <<fs, analysis, enrichedDeps, currentPackage, visited, lockFilePath, packageManager,
                   dependencies, handles, info, variant, arg, ret>>

\* mutant: a failure of Parse is dropped and what the parser collected is
\* enriched
ScanAfterParse_DropsError ==
    /\ pc = "Parse_return"
    /\ pc' = "Scan.range"
    /\ enrichedDeps' = <<>>
    /\ UNCHANGED <<fs, analysis, currentPackage, visited, lockFilePath, packageManager, dependencies,
                   handles, info, variant, result, err, arg, ret>>

\* Parse has returned: the error return, or the start of the loop over
\* the dependencies
ScanAfterParse ==
    /\ pc = "Parse_return"
    /\ IF err # NIL
       THEN /\ result' = <<>>
            /\ err' = FailedToParseLockFile(err)
            /\ pc' = "Scan_return"
            /\ UNCHANGED <<dependencies, enrichedDeps>>
       ELSE /\ dependencies' = result[1]
            /\ enrichedDeps' = <<>>
            /\ pc' = "Scan.range"
            /\ UNCHANGED <<result, err>>
    /\ UNCHANGED <<fs, analysis, currentPackage, visited, lockFilePath, packageManager, handles, info,
                   variant, arg, ret>>

\* one iteration of the loop over the dependencies, up to the call of
\* DetectLicense on the resolved path
ScanResolve ==
    /\ pc = "Scan.range"
    /\ Len(enrichedDeps) < Len(dependencies)
    /\ LET dep == dependencies[Len(enrichedDeps) + 1]
           nodeModulesPath == Join(<<rootPath, NodeModulesDir>>)
       IN  arg' = resolvePackagePath(nodeModulesPath, packageManager, dep)
    /\ info' = <<>>
    /\ err' = NIL
    /\ pc' = "DetectLicense"
    /\ UNCHANGED <<fs, analysis, enrichedDeps, currentPackage, visited, lockFilePath, packageManager,
                   dependencies, handles, variant, result, ret>>

\* mutant: a license read from the lock file is preferred to the detected one
ScanAppend_PrefersLockLicense ==
    /\ pc = "DetectLicense_return"
    /\ LET dep == dependencies[Len(enrichedDeps) + 1]
           licenseInfo == IF err # NIL
                          THEN LicenseInfo(UnknownLicense, 0, DetectionFailedSource)
                          ELSE IF dep.License # <<>>
                          THEN LicenseInfo(dep.License, 10, "package-lock.json")
                          ELSE info[1]
       IN  enrichedDeps' = Append(enrichedDeps, EnrichedDependency(dep, licenseInfo))
    /\ pc' = "Scan.range"
    /\ UNCHANGED <<fs, analysis, currentPackage, visited, lockFilePath, packageManager, dependencies,
                   handles, info, variant, result, err, arg, ret>>

\* DetectLicense has returned: the rest of the iteration
ScanAppend ==
    /\ pc = "DetectLicense_return"
    /\ LET dep == dependencies[Len(enrichedDeps) + 1]
           licenseInfo == IF err # NIL
                          THEN LicenseInfo(UnknownLicense, 0, DetectionFailedSource)
                          ELSE info[1]
       IN  enrichedDeps' = Append(enrichedDeps, EnrichedDependency(dep, licenseInfo))
    /\ pc' = "Scan.range"
    /\ UNCHANGED <<fs, analysis, currentPackage, visited, lockFilePath, packageManager, dependencies,
                   handles, info, variant, result, err, arg, ret>>

\* after the loop
ScanReturn ==
    /\ pc = "Scan.range"
    /\ Len(enrichedDeps) = Len(dependencies)
    /\ result' = Ptr(ScanResult(enrichedDeps))
    /\ err' = NIL
    /\ pc' = "Scan_return"
    /\ UNCHANGED <<fs, analysis, enrichedDeps, currentPackage, visited, lockFilePath, packageManager,
                   dependencies, handles, info, variant, arg, ret>>

Next ==
    \/ ScanStart
    \/ DetectLockFileNext
    \/ ScanAfterDetect
    \/ NPMParseNext
    \/ PnpmParseNext
    \/ YarnParseNext
    \/ ScanAfterParse
    \/ ScanResolve
    \/ DetectLicenseNext
    \/ ScanAppend
    \/ ScanReturn

(***************************************************************************)
(* analyzer.Analyzer.Analyze(arg)                                          *)
(*                                                                         *)
(* A dependency of the analyzer is [Name, License, Confidence] (Version    *)
(* is not read).  LicenseCounts is a function from the keys                *)
(* present in the Go map to their counts.  A message built by fmt.Sprintf  *)
(* is [format, args]; the symbol that starts a recommendation is left out  *)
(* of its text.                                                            *)
(***************************************************************************)
LicMPL20 == <<"M", "P", "L", "-", "2", ".", "0">>

LicUNLICENSED == <<"U", "N", "L", "I", "C", "E", "N", "S", "E", "D">>

LicApacheSpace == <<"A", "p", "a", "c", "h", "e", " ", "2", ".", "0">>

\* mutant: the MIT entry is missing from the table
KnownLicenses_NoMIT ==
    (LicISC :> [Name |-> LicISC, Category |-> "Permissive", RiskLevel |-> "low"])
    @@ (LicBSD2 :> [Name |-> LicBSD2, Category |-> "Permissive", RiskLevel |-> "low"])
    @@ (LicBSD3 :> [Name |-> LicBSD3, Category |-> "Permissive", RiskLevel |-> "low"])
    @@ (LicApache20 :> [Name |-> LicApache20, Category |-> "Permissive", RiskLevel |-> "low"])
    @@ (LicApacheSpace :> [Name |-> LicApache20, Category |-> "Permissive", RiskLevel |-> "low"])
    @@ (LicMPL20 :> [Name |-> LicMPL20, Category |-> "WeakCopyleft", RiskLevel |-> "medium"])
    @@ (LicLGPL21 :> [Name |-> LicLGPL21, Category |-> "WeakCopyleft", RiskLevel |-> "medium"])
    @@ (LicLGPL30 :> [Name |-> LicLGPL30, Category |-> "WeakCopyleft", RiskLevel |-> "medium"])
    @@ (LicGPL20 :> [Name |-> LicGPL20, Category |-> "StrongCopyleft", RiskLevel |-> "high"])
    @@ (LicGPL30 :> [Name |-> LicGPL30, Category |-> "StrongCopyleft", RiskLevel |-> "high"])
    @@ (LicAGPL30 :> [Name |-> LicAGPL30, Category |-> "StrongCopyleft", RiskLevel |-> "high"])
    @@ (LicUNLICENSED :> [Name |-> LicUNLICENSED, Category |-> "Proprietary", RiskLevel |-> "high"])

KnownLicenses ==
    (LicMIT :> [Name |-> LicMIT, Category |-> "Permissive", RiskLevel |-> "low"])
    @@ (LicISC :> [Name |-> LicISC, Category |-> "Permissive", RiskLevel |-> "low"])
    @@ (LicBSD2 :> [Name |-> LicBSD2, Category |-> "Permissive", RiskLevel |-> "low"])
    @@ (LicBSD3 :> [Name |-> LicBSD3, Category |-> "Permissive", RiskLevel |-> "low"])
    @@ (LicApache20 :> [Name |-> LicApache20, Category |-> "Permissive", RiskLevel |-> "low"])
    @@ (LicApacheSpace :> [Name |-> LicApache20, Category |-> "Permissive", RiskLevel |-> "low"])
    @@ (LicMPL20 :> [Name |-> LicMPL20, Category |-> "WeakCopyleft", RiskLevel |-> "medium"])
    @@ (LicLGPL21 :> [Name |-> LicLGPL21, Category |-> "WeakCopyleft", RiskLevel |-> "medium"])
    @@ (LicLGPL30 :> [Name |-> LicLGPL30, Category |-> "WeakCopyleft", RiskLevel |-> "medium"])
    @@ (LicGPL20 :> [Name |-> LicGPL20, Category |-> "StrongCopyleft", RiskLevel |-> "high"])
    @@ (LicGPL30 :> [Name |-> LicGPL30, Category |-> "StrongCopyleft", RiskLevel |-> "high"])
    @@ (LicAGPL30 :> [Name |-> LicAGPL30, Category |-> "StrongCopyleft", RiskLevel |-> "high"])
    @@ (LicUNLICENSED :> [Name |-> LicUNLICENSED, Category |-> "Proprietary", RiskLevel |-> "high"])

\* fmt.Sprintf(format, n); a string literal has no arguments
Sprintf(format, args) == [format |-> format, args |-> args]

\* licenseCounts[key] of a Go map: 0 for a key that is not present
CountOf(licenseCounts, key) ==
    IF key \in DOMAIN licenseCounts THEN licenseCounts[key] ELSE 0

\* the locals of Analyze before its loop
AnalyzeLocals ==
    [i |-> 1, LicenseCounts |-> <<>>, permissiveCount |-> 0, weakCopyleftCount |-> 0,
     strongCopyleftCount |-> 0, unknownCount |-> 0, lowConfidenceCount |-> 0,
     hasLGPL |-> FALSE, hasMPL |-> FALSE]

\* mutant: three low-confidence detections already raise the level
calculateRiskLevel_AtLeastThree(strongCopyleft, weakCopyleft, unknown, lowConfidence) ==
    IF strongCopyleft > 0 \/ unknown > 5 THEN "high"
    ELSE IF weakCopyleft > 0 \/ unknown > 0 \/ lowConfidence >= 3 THEN "medium"
    ELSE "low"

calculateRiskLevel(strongCopyleft, weakCopyleft, unknown, lowConfidence) ==
    IF strongCopyleft > 0 \/ unknown > 5 THEN "high"
    ELSE IF weakCopyleft > 0 \/ unknown > 0 \/ lowConfidence > 3 THEN "medium"
    ELSE "low"

\* mutant: GPL-2.0 or Apache-2.0 alone is reported as the incompatible pair
detectConflicts_ApacheAlone(licenseCounts) ==
    LET hasGPL2 == CountOf(licenseCounts, LicGPL20) > 0
        hasGPL3 == CountOf(licenseCounts, LicGPL30) > 0
        hasAGPL == CountOf(licenseCounts, LicAGPL30) > 0
        hasApache == CountOf(licenseCounts, LicApache20) > 0
                        \/ CountOf(licenseCounts, LicApacheSpace) > 0
    IN  (IF hasAGPL
         THEN <<"AGPL-3.0 requires source disclosure for network use - ensure compliance">>
         ELSE <<>>)
        \o (IF hasGPL2 \/ hasApache
            THEN <<"GPL-2.0 and Apache-2.0 licenses are incompatible">>
            ELSE <<>>)
        \o (IF hasGPL2 /\ hasGPL3
            THEN <<"GPL-2.0 and GPL-3.0 detected - verify 'or later' clauses for compatibility">>
            ELSE <<>>)

detectConflicts(licenseCounts) ==
    LET hasGPL2 == CountOf(licenseCounts, LicGPL20) > 0
        hasGPL3 == CountOf(licenseCounts, LicGPL30) > 0
        hasAGPL == CountOf(licenseCounts, LicAGPL30) > 0
        hasApache == CountOf(licenseCounts, LicApache20) > 0
                        \/ CountOf(licenseCounts, LicApacheSpace) > 0
    IN  (IF hasAGPL
         THEN <<"AGPL-3.0 requires source disclosure for network use - ensure compliance">>
         ELSE <<>>)
        \o (IF hasGPL2 /\ hasApache
            THEN <<"GPL-2.0 and Apache-2.0 licenses are incompatible">>
            ELSE <<>>)
        \o (IF hasGPL2 /\ hasGPL3
            THEN <<"GPL-2.0 and GPL-3.0 detected - verify 'or later' clauses for compatibility">>
            ELSE <<>>)

\* mutant: the all-clear message is not added to an empty list
generateRecommendations_NoAllClear(permissive, weakCopyleft, strongCopyleft, unknown, lowConfidence, hasConflicts, hasLGPL, hasMPL) ==
    LET recommendations ==
            (IF hasConflicts
             THEN <<Sprintf("License conflicts detected - review dependencies for compatibility issues", <<>>)>>
             ELSE <<>>)
            \o (IF strongCopyleft > 0
                THEN <<Sprintf("Found %d GPL/AGPL dependencies - ensure compliance with copyleft requirements",
                               <<strongCopyleft>>),
                       Sprintf("Consider legal review if distributing proprietary software", <<>>)>>
                ELSE <<>>)
            \o (IF weakCopyleft > 0 /\ (hasLGPL \/ hasMPL)
                THEN <<Sprintf("Found %d LGPL/MPL dependencies - these allow proprietary use with conditions",
                               <<weakCopyleft>>)>>
                ELSE <<>>)
            \o (IF unknown > 0
                THEN <<Sprintf("%d dependencies have unknown licenses - manual review required",
                               <<unknown>>),
                       Sprintf("Check package repositories or contact maintainers for license clarification", <<>>)>>
                ELSE <<>>)
            \o (IF lowConfidence > 0
                THEN <<Sprintf("%d dependencies have low-confidence license detection - verify manually",
                               <<lowConfidence>>)>>
                ELSE <<>>)
    IN  recommendations

generateRecommendations(permissive, weakCopyleft, strongCopyleft, unknown, lowConfidence, hasConflicts, hasLGPL, hasMPL) ==
    LET recommendations ==
            (IF hasConflicts
             THEN <<Sprintf("License conflicts detected - review dependencies for compatibility issues", <<>>)>>
             ELSE <<>>)
            \o (IF strongCopyleft > 0
                THEN <<Sprintf("Found %d GPL/AGPL dependencies - ensure compliance with copyleft requirements",
                               <<strongCopyleft>>),
                       Sprintf("Consider legal review if distributing proprietary software", <<>>)>>
                ELSE <<>>)
            \o (IF weakCopyleft > 0 /\ (hasLGPL \/ hasMPL)
                THEN <<Sprintf("Found %d LGPL/MPL dependencies - these allow proprietary use with conditions",
                               <<weakCopyleft>>)>>
                ELSE <<>>)
            \o (IF unknown > 0
                THEN <<Sprintf("%d dependencies have unknown licenses - manual review required",
                               <<unknown>>),
                       Sprintf("Check package repositories or contact maintainers for license clarification", <<>>)>>
                ELSE <<>>)
            \o (IF lowConfidence > 0
                THEN <<Sprintf("%d dependencies have low-confidence license detection - verify manually",
                               <<lowConfidence>>)>>
                ELSE <<>>)
    IN  IF Len(recommendations) = 0
        THEN <<Sprintf("All licenses are permissive and compatible - no compliance issues detected", <<>>)>>
        ELSE recommendations

AnalysisResult(riskLevel, conflicts, recommendations, licenseCounts) ==
    [RiskLevel |-> riskLevel, Conflicts |-> conflicts, Recommendations |-> recommendations,
     LicenseCounts |-> licenseCounts]

\* mutant: a license already counted is not counted again
AnalyzeRange_CountsOnce ==
    /\ pc = "Analyze"
    /\ analysis.i <= Len(arg)
    /\ LET dep == arg[analysis.i]
           license == normalizeLicense(dep.License)
           counted == [analysis EXCEPT
                          !.i = @ + 1,
                          !.LicenseCounts =
                              IF license \in DOMAIN @ THEN @
                              ELSE @ @@ (license :> 1)]
       IN  IF license \notin DOMAIN KnownLicenses
           THEN analysis' = [counted EXCEPT
                                !.unknownCount = IF license # UnknownLicense THEN @ + 1 ELSE @]
           ELSE LET category == KnownLicenses[license].Category
                IN  analysis' = [counted EXCEPT
                        !.lowConfidenceCount = IF dep.Confidence < 5 THEN @ + 1 ELSE @,
                        !.permissiveCount = IF category = "Permissive" THEN @ + 1 ELSE @,
                        !.weakCopyleftCount = IF category = "WeakCopyleft" THEN @ + 1 ELSE @,
                        !.hasLGPL = @ \/ (category = "WeakCopyleft"
                                            /\ license \in {LicLGPL21, LicLGPL30}),
                        !.hasMPL = @ \/ (category = "WeakCopyleft" /\ license = LicMPL20),
                        !.strongCopyleftCount = IF category = "StrongCopyleft" THEN @ + 1 ELSE @]
    /\ UNCHANGED <<fs, enrichedDeps, currentPackage, pc, visited, lockFilePath, packageManager,
                   dependencies, handles, info, variant, result, err, arg, ret>>

\* one iteration of the loop over the dependencies
AnalyzeRange ==
    /\ pc = "Analyze"
    /\ analysis.i <= Len(arg)
    /\ LET dep == arg[analysis.i]
           license == normalizeLicense(dep.License)
           counted == [analysis EXCEPT
                          !.i = @ + 1,
                          !.LicenseCounts =
                              IF license \in DOMAIN @ THEN [@ EXCEPT ![license] = @ + 1]
                              ELSE @ @@ (license :> 1)]
       IN  IF license \notin DOMAIN KnownLicenses
           THEN analysis' = [counted EXCEPT
                                !.unknownCount = IF license # UnknownLicense THEN @ + 1 ELSE @]
           ELSE LET category == KnownLicenses[license].Category
                IN  analysis' = [counted EXCEPT
                        !.lowConfidenceCount = IF dep.Confidence < 5 THEN @ + 1 ELSE @,
                        !.permissiveCount = IF category = "Permissive" THEN @ + 1 ELSE @,
                        !.weakCopyleftCount = IF category = "WeakCopyleft" THEN @ + 1 ELSE @,
                        !.hasLGPL = @ \/ (category = "WeakCopyleft"
                                            /\ license \in {LicLGPL21, LicLGPL30}),
                        !.hasMPL = @ \/ (category = "WeakCopyleft" /\ license = LicMPL20),
                        !.strongCopyleftCount = IF category = "StrongCopyleft" THEN @ + 1 ELSE @]
    /\ UNCHANGED <<fs, enrichedDeps, currentPackage, pc, visited, lockFilePath, packageManager,
                   dependencies, handles, info, variant, result, err, arg, ret>>

\* mutant: the strong and the weak count are passed to calculateRiskLevel
\* in each other's place
AnalyzeReturn_CountsSwapped ==
    /\ pc = "Analyze"
    /\ analysis.i > Len(arg)
    /\ LET unknownCount == IF UnknownLicense \in DOMAIN analysis.LicenseCounts
                           THEN analysis.LicenseCounts[UnknownLicense]
                           ELSE analysis.unknownCount
           conflicts == detectConflicts(analysis.LicenseCounts)
       IN  /\ analysis' = [analysis EXCEPT !.unknownCount = unknownCount]
           /\ result' = Ptr(AnalysisResult(
                  calculateRiskLevel(analysis.weakCopyleftCount, analysis.strongCopyleftCount,
                                     unknownCount, analysis.lowConfidenceCount),
                  conflicts,
                  generateRecommendations(analysis.permissiveCount, analysis.weakCopyleftCount,
                                          analysis.strongCopyleftCount, unknownCount,
                                          analysis.lowConfidenceCount, Len(conflicts) > 0,
                                          analysis.hasLGPL, analysis.hasMPL),
                  analysis.LicenseCounts))
    /\ pc' = "Analyze_return"
    /\ UNCHANGED <<fs, enrichedDeps, currentPackage, visited, lockFilePath, packageManager,
                   dependencies, handles, info, variant, err, arg, ret>>

\* after the loop: the unknown count taken from the counts, the risk
\* level, the conflicts, the recommendations and the return
AnalyzeReturn ==
    /\ pc = "Analyze"
    /\ analysis.i > Len(arg)
    /\ LET unknownCount == IF UnknownLicense \in DOMAIN analysis.LicenseCounts
                           THEN analysis.LicenseCounts[UnknownLicense]
                           ELSE analysis.unknownCount
           conflicts == detectConflicts(analysis.LicenseCounts)
       IN  /\ analysis' = [analysis EXCEPT !.unknownCount = unknownCount]
           /\ result' = Ptr(AnalysisResult(
                  calculateRiskLevel(analysis.strongCopyleftCount, analysis.weakCopyleftCount,
                                     unknownCount, analysis.lowConfidenceCount),
                  conflicts,
                  generateRecommendations(analysis.permissiveCount, analysis.weakCopyleftCount,
                                          analysis.strongCopyleftCount, unknownCount,
                                          analysis.lowConfidenceCount, Len(conflicts) > 0,
                                          analysis.hasLGPL, analysis.hasMPL),
                  analysis.LicenseCounts))
    /\ pc' = "Analyze_return"
    /\ UNCHANGED <<fs, enrichedDeps, currentPackage, visited, lockFilePath, packageManager,
                   dependencies, handles, info, variant, err, arg, ret>>

AnalyzeNext ==
    \/ AnalyzeRange
    \/ AnalyzeReturn

(***************************************************************************)
(* Inputs                                                                  *)
(***************************************************************************)
Idle ==
    /\ visited = {}
    /\ lockFilePath = NIL
    /\ packageManager = NIL
    /\ dependencies = <<>>
    /\ enrichedDeps = <<>>
    /\ currentPackage = <<>>
    /\ analysis = AnalyzeLocals
    /\ handles = {}
    /\ info = <<>>
    /\ variant = 0
    /\ result = <<>>
    /\ err = NIL
    /\ ret = <<>>

NoLockFiles ==
    [n \in {"package-lock.json", "yarn.lock", "pnpm-lock.yaml"} |->
        [kind |-> "absent", content |-> <<>>]]

\* the path DetectLicense is called with
PackagePath == <<"p", "k", "g">>

FileContents ==
    { <<"MIT License">>,
      <<"Licensed under the Apache License, Version 2.0 or the MIT license">>,
      <<"Available under GPLv2 or GPLv3">>,
      <<"Version 3, 29 June 2007">>,
      <<"BSD 2-Clause License",
        "Redistribution and use in source and binary forms are permitted provided that the following conditions are met">>,
      <<"ISC License">>,
      <<"Some custom license text">> }

PresentEntries ==
    {[kind |-> k, content |-> <<>>] : k \in {"dir", "openfail", "readfail"}}
        \cup {[kind |-> "file", content |-> c] : c \in FileContents}

\* the states of the variant names of one directory, at most MaxEntries present
EntryConfigs ==
    UNION { { [n \in VariantNames |-> IF n \in S THEN f[n] ELSE AbsentEntry] :
                f \in [S -> PresentEntries] } :
            S \in {T \in SUBSET VariantNames : Cardinality(T) <= MaxEntries} }

PackageJSONOf(kind, license) == [kind |-> kind, license |-> license]

UnusablePackageJSONs ==
    {PackageJSONOf(k, JNull) : k \in {"absent", "openfail", "readfail", "malformed"}}

DetectPackageJSONs ==
    UnusablePackageJSONs
        \cup {PackageJSONOf("valid", f) :
                f \in {JNull, JNumber, JString(<<" ">>), JString(LicMIT),
                       JString(<<"a","p","a","c","h","e","2">>)}}

InitDetect ==
    /\ Idle
    /\ pc = "DetectLicense"
    /\ arg = PackagePath
    /\ \/ fs = [root |-> NoLockFiles, dirs |-> <<>>, store |-> <<>>]
       \/ \E pj \in DetectPackageJSONs, e \in EntryConfigs :
             fs = [root |-> NoLockFiles,
                   dirs |-> (PackagePath :> [packageJSON |-> pj, entries |-> e]),
                   store |-> <<>>]

SpecDetect == InitDetect /\ [][DetectLicenseNext]_vars

(***************************************************************************)
(* package-lock.json inputs                                                *)
(***************************************************************************)
PackageKeys ==
    { <<>>,
      <<"n","o","d","e","_","m","o","d","u","l","e","s","/","a">>,
      <<"n","o","d","e","_","m","o","d","u","l","e","s","/","@","s","/","b">>,
      <<"n","o","d","e","_","m","o","d","u","l","e","s","/","@","s","/","b","/","l","i","b","/","x",".","t","s">>,
      <<"n","o","d","e","_","m","o","d","u","l","e","s","/","a","/","n","o","d","e","_","m","o","d","u","l","e","s","/","b">>,
      <<"i","n","v","a","l","i","d","/","p","a","t","h">>,
      <<"n","o","d","e","_","m","o","d","u","l","e","s","/">>,
      <<"n","o","d","e","_","m","o","d","u","l","e","s","/","@","s">> }

PackageEntries ==
    { [Version |-> <<"1",".","0">>, License |-> LicMIT],
      [Version |-> <<"2",".","0">>, License |-> <<>>] }

\* the `packages` maps with at most MaxKeys keys
PackagesMaps ==
    UNION { [S -> PackageEntries] :
            S \in {T \in SUBSET PackageKeys : Cardinality(T) <= MaxKeys} }

LegacyNames == { <<"a">>, <<"b">> }

Digits == <<"1", "2", "3", "4", "5", "6", "7", "8", "9">>

\* the legacy `dependencies` maps nested at most depth levels below this
\* one; a node at nesting level n has version n.0
RECURSIVE LegacyMaps(_, _)
LegacyMaps(depth, level) ==
    LET version == <<Digits[level], ".", "0">>
        nodes == {[Version |-> version, Dependencies |-> <<>>]}
                    \cup (IF depth = 0 THEN {}
                          ELSE {[Version |-> version, Dependencies |-> Ptr(m)] :
                                    m \in LegacyMaps(depth - 1, level + 1)})
    IN  UNION { [S -> nodes] : S \in SUBSET LegacyNames }

NPMLockFile(packages, deps) ==
    [kind |-> "valid", content |-> [Packages |-> packages, Dependencies |-> deps]]

NoContent == [Packages |-> <<>>, Dependencies |-> <<>>]

NPMLockFiles ==
    {[kind |-> k, content |-> NoContent] : k \in {"openfail", "readfail", "malformed", "dir"}}
        \cup {NPMLockFile(p, d) :
                p \in PackagesMaps,
                d \in {<<>>, Ptr((<<"b">> :> [Version |-> <<"3",".","0">>, Dependencies |-> <<>>]))}}
        \cup {NPMLockFile(p, Ptr(m)) :
                p \in { <<>>,
                        (<<>> :> [Version |-> <<"1",".","0">>, License |-> LicMIT]),
                        (<<"i","n","v","a","l","i","d","/","p","a","t","h">>
                            :> [Version |-> <<"1",".","0">>, License |-> LicMIT]) },
                m \in LegacyMaps(MaxDepth, 1)}

InitNPM ==
    /\ visited = {}
    /\ lockFilePath = PackageLockJSON
    /\ packageManager = "npm"
    /\ dependencies = <<>>
    /\ enrichedDeps = <<>>
    /\ currentPackage = <<>>
    /\ analysis = AnalyzeLocals
    /\ handles = {}
    /\ info = <<>>
    /\ variant = 0
    /\ result = <<>>
    /\ err = NIL
    /\ ret = <<>>
    /\ arg = <<>>
    /\ pc = "NPMParser.Parse"
    /\ \E lf \in NPMLockFiles :
          fs = [root |-> [n \in DOMAIN NoLockFiles |->
                            IF n = PackageLockJSON THEN lf ELSE NoLockFiles[n]],
                dirs |-> <<>>, store |-> <<>>]

SpecNPM == InitNPM /\ [][NPMParseNext]_vars

(***************************************************************************)
(* Scan inputs: a project root with any of the three lock files, each      *)
(* naming the packages a 1.0.0 and @s/b 2.0.0, and the package             *)
(* directories under node_modules.                                         *)
(***************************************************************************)
ScanNPMLockFiles ==
    { AbsentEntry,
      [kind |-> "malformed", content |-> NoContent],
      [kind |-> "dir", content |-> NoContent],
      NPMLockFile((<<>> :> [Version |-> <<"0", ".", "1">>, License |-> LicISC])
                    @@ (<<"n", "o", "d", "e", "_", "m", "o", "d", "u", "l", "e", "s", "/", "a">> :> [Version |-> <<"1", ".", "0", ".", "0">>, License |-> LicMIT])
                    @@ (<<"n", "o", "d", "e", "_", "m", "o", "d", "u", "l", "e", "s", "/", "@", "s", "/", "b">> :> [Version |-> <<"2", ".", "0", ".", "0">>, License |-> <<>>]),
                  <<>>) }

ScanYarnLockFiles ==
    { AbsentEntry,
      [kind |-> "openfail", content |-> <<>>],
      [kind |-> "readfail", content |-> << <<"a", "@", "^", "1", ".", "0", ".", "0", ":">> >>],
      [kind |-> "file",
       content |-> << <<"a", "@", "^", "1", ".", "0", ".", "0", ":">>, <<" ", " ", "v", "e", "r", "s", "i", "o", "n", " ", "\"", "1", ".", "0", ".", "0", "\"">>, <<>>, <<"\"", "@", "s", "/", "b", "@", "^", "2", ".", "0", ".", "0", "\"", ":">>, <<" ", " ", "v", "e", "r", "s", "i", "o", "n", " ", "\"", "2", ".", "0", ".", "0", "\"">> >>] }

ScanPnpmLockFiles ==
    { AbsentEntry,
      [kind |-> "openfail", content |-> {}],
      [kind |-> "malformed", content |-> {}],
      [kind |-> "valid", content |-> { <<"/", "a", "@", "1", ".", "0", ".", "0">>, <<"/", "@", "s", "/", "b", "@", "2", ".", "0", ".", "0">> }] }

PackageDir(pj, present) ==
    [packageJSON |-> pj,
     entries |-> [n \in VariantNames |->
                    IF n \in DOMAIN present THEN present[n] ELSE AbsentEntry]]

LicenseFile(content) == [kind |-> "file", content |-> content]

\* package.json declares MIT
DeclaresMIT == PackageDir(PackageJSONOf("valid", JString(LicMIT)), <<>>)

\* no package.json, a LICENSE with the ISC text
HasISCFile ==
    PackageDir(PackageJSONOf("absent", JNull), ("LICENSE" :> LicenseFile(<<"ISC License">>)))

\* package.json without a license, a LICENSE.md naming Apache-2.0 and MIT
HasDualFile ==
    PackageDir(PackageJSONOf("valid", JNull),
               ("LICENSE.md" :> LicenseFile(
                    <<"Licensed under the Apache License, Version 2.0 or the MIT license">>)))

\* malformed package.json, a directory named LICENSE, a LICENCE with a custom text
HasCustomFile ==
    PackageDir(PackageJSONOf("malformed", JNull),
               ("LICENSE" :> [kind |-> "dir", content |-> <<>>])
                 @@ ("LICENCE" :> LicenseFile(<<"Some custom license text">>)))

\* a directory with neither a package.json nor a license file
EmptyDir == PackageDir(PackageJSONOf("absent", JNull), <<>>)

\* the paths of the package directories under the root
HoistedA == <<"n", "o", "d", "e", "_", "m", "o", "d", "u", "l", "e", "s", "/", "a">>

HoistedSB == <<"n", "o", "d", "e", "_", "m", "o", "d", "u", "l", "e", "s", "/", "@", "s", "/", "b">>

StoreA == <<"n", "o", "d", "e", "_", "m", "o", "d", "u", "l", "e", "s", "/", ".", "p", "n", "p", "m", "/", "a", "@", "1", ".", "0", ".", "0", "/", "n", "o", "d", "e", "_", "m", "o", "d", "u", "l", "e", "s", "/", "a">>

StoreQualifiedA == <<"n", "o", "d", "e", "_", "m", "o", "d", "u", "l", "e", "s", "/", ".", "p", "n", "p", "m", "/", "a", "@", "1", ".", "0", ".", "0", "_", "x", "/", "n", "o", "d", "e", "_", "m", "o", "d", "u", "l", "e", "s", "/", "a">>

StoreEncodedSB == <<"n", "o", "d", "e", "_", "m", "o", "d", "u", "l", "e", "s", "/", ".", "p", "n", "p", "m", "/", "%", "4", "0", "s", "/", "b", "@", "2", ".", "0", ".", "0", "/", "n", "o", "d", "e", "_", "m", "o", "d", "u", "l", "e", "s", "/", "@", "s", "/", "b">>

\* the directory a path can hold, <<>> for a path that does not exist
DirChoices ==
    [ HoistedA : {<<>>, Ptr(DeclaresMIT), Ptr(HasISCFile), Ptr(HasDualFile)},
      HoistedSB : {<<>>, Ptr(HasCustomFile)},
      StoreA : {<<>>, Ptr(HasISCFile)},
      StoreQualifiedA : {<<>>, Ptr(DeclaresMIT)},
      StoreEncodedSB : {<<>>, Ptr(EmptyDir)} ]

ScanPaths == <<HoistedA, HoistedSB, StoreA, StoreQualifiedA, StoreEncodedSB>>

ChoiceAt(c, i) ==
    CASE i = 1 -> c.HoistedA
      [] i = 2 -> c.HoistedSB
      [] i = 3 -> c.StoreA
      [] i = 4 -> c.StoreQualifiedA
      [] i = 5 -> c.StoreEncodedSB

\* the directory map of a choice: the paths that exist, with their directories
DirsOf(c) ==
    LET present == {i \in DOMAIN ScanPaths : ChoiceAt(c, i) # <<>>}
    IN  [path \in {ScanPaths[i] : i \in present} |->
            ChoiceAt(c, CHOOSE i \in present : ScanPaths[i] = path)[1]]

\* os.ReadDir of node_modules/.pnpm: an error, or the sorted entries
StoreListings ==
    { <<>>,
      Ptr(<< [Name |-> <<"a", "@", "0", ".", "9", ".", "0">>, IsDir |-> FALSE],
             [Name |-> <<"a", "@", "1", ".", "0", ".", "0", "_", "x">>, IsDir |-> TRUE] >>) }

Init ==
    /\ Idle
    /\ pc = "Scan"
    /\ arg = <<>>
    /\ \E npm \in ScanNPMLockFiles, yarn \in ScanYarnLockFiles, pnpm \in ScanPnpmLockFiles,
          c \in DirChoices, listing \in StoreListings :
          fs = [root |-> ("package-lock.json" :> npm) @@ ("yarn.lock" :> yarn)
                            @@ ("pnpm-lock.yaml" :> pnpm),
                dirs |-> DirsOf(c),
                store |-> listing]

Spec == Init /\ [][Next]_vars

(***************************************************************************)
(* Two scans by scanners built with NewWithDependencies on the same        *)
(* injected file system.  The lock files and package directories are what  *)
(* the injected FileSystem serves and stay as they are; the listing of     *)
(* the pnpm store is read with os.ReadDir from the operating system's      *)
(* file system, which can hold anything at the second scan.  ret keeps     *)
(* what the first scan returned.                                           *)
(***************************************************************************)
ScanAgain ==
    /\ pc = "Scan_return"
    /\ ret = <<>>
    /\ ret' = <<[result |-> result, err |-> err]>>
    /\ \E listing \in StoreListings : fs' = [fs EXCEPT !.store = listing]
    /\ pc' = "Scan"
    /\ visited' = {}
    /\ lockFilePath' = NIL
    /\ packageManager' = NIL
    /\ dependencies' = <<>>
    /\ enrichedDeps' = <<>>
    /\ info' = <<>>
    /\ variant' = 0
    /\ result' = <<>>
    /\ err' = NIL
    /\ arg' = <<>>
    /\ UNCHANGED <<currentPackage, analysis, handles>>

NextTwoScans ==
    \/ Next
    \/ ScanAgain

SpecTwoScans == Init /\ [][NextTwoScans]_vars

(***************************************************************************)
(* Two scans of a project whose package-lock.json differs between them     *)
(* only in the license fields of its entries.  ret keeps what the first    *)
(* scan returned.                                                          *)
(***************************************************************************)
LockLicenses == {<<>>, LicGPL30}

\* the lock file with the license field of every entry set to license
Relicensed(lockFile, license) ==
    [lockFile EXCEPT !.content.Packages =
        [k \in DOMAIN @ |-> [@[k] EXCEPT !.License = license]]]

ScanRelicensed ==
    /\ pc = "Scan_return"
    /\ ret = <<>>
    /\ fs.root["package-lock.json"].kind = "valid"
    /\ ret' = <<[result |-> result, err |-> err]>>
    /\ \E license \in LockLicenses :
          fs' = [fs EXCEPT !.root["package-lock.json"] = Relicensed(@, license)]
    /\ pc' = "Scan"
    /\ visited' = {}
    /\ lockFilePath' = NIL
    /\ packageManager' = NIL
    /\ dependencies' = <<>>
    /\ enrichedDeps' = <<>>
    /\ info' = <<>>
    /\ variant' = 0
    /\ result' = <<>>
    /\ err' = NIL
    /\ arg' = <<>>
    /\ UNCHANGED <<currentPackage, analysis, handles>>

NextRelicensed ==
    \/ Next
    \/ ScanRelicensed

SpecRelicensed == Init /\ [][NextRelicensed]_vars

(***************************************************************************)
(* yarn.lock inputs: every sequence of at most MaxLines lines of a         *)
(* vocabulary of headers, version lines and other lines.                   *)
(***************************************************************************)
YarnLines ==
    { <<"a", "@", "^", "1", ".", "0", ".", "0", ":">>,
      <<"\"", "@", "s", "/", "b", "@", "^", "2", ".", "0", ".", "0", "\"", ":">>,
      <<"a", "@", "^", "1", ".", "0", ".", "0", ",", " ", "a", "@", "~", "1", ".", "1", ".", "0", ":">>,
      <<"\"", "@", "s", "/", "b", "@", "1", "\"", ",", " ", "\"", "@", "s", "/", "b", "@", "2", "\"", ":">>,
      <<" ", " ", "v", "e", "r", "s", "i", "o", "n", " ", "\"", "1", ".", "0", ".", "0", "\"">>,
      <<" ", " ", "v", "e", "r", "s", "i", "o", "n", " ", "\"", "2", ".", "0", ".", "0", "\"">>,
      <<" ", " ", "r", "e", "s", "o", "l", "v", "e", "d", " ", "\"", "u", "\"">>,
      <<>> }

YarnContents == UNION { [1..n -> YarnLines] : n \in 0..MaxLines }

YarnLockFiles ==
    {[kind |-> k, content |-> <<>>] : k \in {"openfail", "dir"}}
        \cup {[kind |-> k, content |-> c] : k \in {"file", "readfail"}, c \in YarnContents}

\* the state in which a parser's Parse is called on the lock file of the root
ParserStart(path, manager) ==
    /\ visited = {}
    /\ lockFilePath = path
    /\ packageManager = manager
    /\ dependencies = <<>>
    /\ enrichedDeps = <<>>
    /\ currentPackage = <<>>
    /\ analysis = AnalyzeLocals
    /\ handles = {}
    /\ info = <<>>
    /\ variant = 0
    /\ result = <<>>
    /\ err = NIL
    /\ ret = <<>>
    /\ arg = <<>>

InitYarn ==
    /\ ParserStart("yarn.lock", "yarn")
    /\ pc = "YarnParser.Parse"
    /\ \E lf \in YarnLockFiles :
          fs = [root |-> [n \in DOMAIN NoLockFiles |->
                            IF n = "yarn.lock" THEN lf ELSE NoLockFiles[n]],
                dirs |-> <<>>, store |-> <<>>]

SpecYarn == InitYarn /\ [][YarnParseNext]_vars

(***************************************************************************)
(* pnpm-lock.yaml inputs: one key of at most MaxKeyLen characters, or a    *)
(* few keys of the forms the tests use.                                    *)
(***************************************************************************)
PnpmKeyChars == {"a", "@", "/"}

PnpmKeys == UNION { [1..n -> PnpmKeyChars] : n \in 0..MaxKeyLen }

PnpmTestKeys ==
    { <<"/", "e", "x", "p", "r", "e", "s", "s", "@", "4", ".", "1", "8", ".", "2">>,
      <<"/", "@", "b", "a", "b", "e", "l", "/", "c", "o", "r", "e", "@", "7", ".", "2", "0", ".", "0">>,
      <<"i", "n", "v", "a", "l", "i", "d", "-", "f", "o", "r", "m", "a", "t">>,
      <<"l", "o", "d", "a", "s", "h", "@", "4", ".", "1", "7", ".", "2", "1">>,
      <<>> }

PnpmContents == {{k} : k \in PnpmKeys} \cup SUBSET PnpmTestKeys

PnpmLockFiles ==
    {[kind |-> k, content |-> {}] : k \in {"openfail", "readfail", "malformed", "dir"}}
        \cup {[kind |-> "valid", content |-> c] : c \in PnpmContents}

InitPnpm ==
    /\ ParserStart("pnpm-lock.yaml", "pnpm")
    /\ pc = "PnpmParser.Parse"
    /\ \E lf \in PnpmLockFiles :
          fs = [root |-> [n \in DOMAIN NoLockFiles |->
                            IF n = "pnpm-lock.yaml" THEN lf ELSE NoLockFiles[n]],
                dirs |-> <<>>, store |-> <<>>]

SpecPnpm == InitPnpm /\ [][PnpmParseNext]_vars

(***************************************************************************)
(* Analyze inputs: a run of one dependency followed by a few others.       *)
(***************************************************************************)
AnalyzerDependency(name, license, confidence) ==
    [Name |-> name, License |-> license, Confidence |-> confidence]

AnalyzerDependencies ==
    { AnalyzerDependency("react", LicMIT, 10),
      AnalyzerDependency("pkg1", LicMIT, 2),
      AnalyzerDependency("apache-lib", LicApache20, 10),
      AnalyzerDependency("gpl2-package", LicGPL20, 9),
      AnalyzerDependency("gpl-package", LicGPL30, 4),
      AnalyzerDependency("agpl-package", LicAGPL30, 10),
      AnalyzerDependency("lgpl-lib", LicLGPL21, 9),
      AnalyzerDependency("mpl-lib", LicMPL20, 10),
      AnalyzerDependency("unknown1", UnknownLicense, 0),
      AnalyzerDependency("custom", <<"C", "u", "s", "t", "o", "m">>, 2),
      AnalyzerDependency("private", LicUNLICENSED, 10) }

\* the dependencies whose number decides a threshold: low confidence,
\* a license outside the table, the license "Unknown"
RepeatedDependencies ==
    {d \in AnalyzerDependencies : d.Name \in {"pkg1", "custom", "unknown1"}}

\* the dependencies that take part in a conflict or in a recommendation
\* other than the all-clear one
MixedDependencies ==
    {d \in AnalyzerDependencies :
        d.Name \in {"apache-lib", "gpl2-package", "gpl-package", "agpl-package",
                    "lgpl-lib", "custom"}}

\* a run of one repeated dependency followed by any dependencies, or a
\* list of mixed dependencies
AnalyzerInputs ==
    { [i \in 1..n |-> d] \o t :
        d \in RepeatedDependencies,
        n \in 0..MaxRepeat,
        t \in UNION { [1..k -> AnalyzerDependencies] : k \in 0..MaxDeps } }
    \cup UNION { [1..k -> MixedDependencies] : k \in 0..MaxMixed }

InitAnalyze ==
    /\ Idle
    /\ pc = "Analyze"
    /\ fs = [root |-> NoLockFiles, dirs |-> <<>>, store |-> <<>>]
    /\ arg \in AnalyzerInputs

SpecAnalyze == InitAnalyze /\ [][AnalyzeNext]_vars

(***************************************************************************)
(* Analyze called on a list and then on the same list followed by one      *)
(* more dependency.  ret keeps the risk level of the first call.           *)
(***************************************************************************)
AnalyzerShortInputs ==
    { [i \in 1..n |-> d] \o t :
        d \in RepeatedDependencies,
        n \in 0..MaxRepeat,
        t \in {<<>>} \cup {<<e>> : e \in AnalyzerDependencies} }

InitAnalyzeLonger ==
    /\ Idle
    /\ pc = "Analyze"
    /\ fs = [root |-> NoLockFiles, dirs |-> <<>>, store |-> <<>>]
    /\ arg \in AnalyzerShortInputs

AnalyzeLonger ==
    /\ pc = "Analyze_return"
    /\ ret = <<>>
    /\ ret' = <<result[1].RiskLevel>>
    /\ \E d \in AnalyzerDependencies : arg' = Append(arg, d)
    /\ analysis' = AnalyzeLocals
    /\ result' = <<>>
    /\ pc' = "Analyze"
    /\ UNCHANGED <<fs, enrichedDeps, currentPackage, visited, lockFilePath, packageManager,
                   dependencies, handles, info, variant, err>>

AnalyzeLongerNext ==
    \/ AnalyzeNext
    \/ AnalyzeLonger

SpecAnalyzeLonger == InitAnalyzeLonger /\ [][AnalyzeLongerNext]_vars

(***************************************************************************)
(* package.json license fields, arrays nested at most MaxNest deep         *)
(***************************************************************************)
FieldStrings ==
    { <<>>, <<" ">>, LicMIT, <<"m","i","t">>, <<" ","g","p","l","v","3","\t">>,
      <<"A","p","a","c","h","e"," ","2",".","0">>,
      <<"C","u","s","t","o","m"," ","L","i","c","e","n","s","e">> }

FieldScalars ==
    {JNull, JNumber}
        \cup {JString(s) : s \in FieldStrings}
        \cup {JObject(<<>>), JObject(<<JNumber>>), JObject(<<JString(<<>>)>>),
              JObject(<<JString(<<"b","s","d","3">>)>>),
              JObject(<<JString(<<"I","S","C"," ","O","R"," ","M","I","T">>)>>)}

RECURSIVE LicenseFields(_)
LicenseFields(nest) ==
    IF nest = 0 THEN FieldScalars
    ELSE LET inner == LicenseFields(nest - 1)
         IN  inner \cup {JArray(<<>>)}
                   \cup {JArray(<<x>>) : x \in inner}
                   \cup {JArray(<<x, JString(LicApache20)>>) : x \in inner}

InitPackageJSON ==
    /\ Idle
    /\ pc = "DetectLicense"
    /\ arg = PackagePath
    /\ \E f \in LicenseFields(MaxNest),
          e \in {[n \in VariantNames |-> AbsentEntry],
                 [n \in VariantNames |->
                     IF n = "LICENSE.md" THEN [kind |-> "file", content |-> <<"ISC License">>]
                     ELSE AbsentEntry]} :
          fs = [root |-> NoLockFiles,
                dirs |-> (PackagePath :> [packageJSON |-> PackageJSONOf("valid", f),
                                          entries |-> e]),
                store |-> <<>>]

SpecPackageJSON == InitPackageJSON /\ [][DetectLicenseNext]_vars

(***************************************************************************)
(* The two normalizers, each applied to a string and then to its own       *)
(* result                                                                  *)
(***************************************************************************)
Pads ==
    UNION { [1..n -> {" ", "\t"}] : n \in 0..MaxPad }

LicenseSpellings ==
    { <<>>, LicMIT, <<"m","i","t">>, <<"M","i","t">>,
      LicApache20, <<"A","p","a","c","h","e"," ","2",".","0">>, <<"a","p","a","c","h","e","2">>,
      <<"A","p","a","c","h","e","-","V","2">>, <<"A","p","a","c","h","e"," ","v","2">>,
      LicGPL30, <<"g","p","l","v","3">>, <<"G","P","L","3">>, <<"G","P","L"," ","3",".","0">>,
      LicGPL20, <<"G","P","L","v","2">>, <<"g","p","l","2">>, <<"G","P","L">>,
      LicBSD3, <<"b","s","d","3">>, <<"B","S","D"," ","3"," ","C","l","a","u","s","e">>,
      LicBSD2, <<"B","S","D","2">>, LicISC, <<"i","s","c">>,
      LicAGPL30, <<"a","g","p","l">>, LicLGPL30, LicLGPL21, <<"l","g","p","l">>,
      <<"L","G","P","L"," ","2"," ","o","r"," ","3">>,
      <<"M","P","L","-","2",".","0">>, UnknownLicense,
      <<"U","N","L","I","C","E","N","S","E","D">>,
      <<"C","u","s","t","o","m"," ","L","i","c","e","n","s","e">>,
      <<"M","I","T"," ","\t"," ","O","R"," ","I","S","C">>,
      <<"a","p","a","c","h","e","-","2",".","0">>,
      <<"A","G","P","L"," ","o","r"," ","A","p","a","c","h","e">>,
      <<"A","p","a","c","h","e","/","G","P","L","-","3",".","0">>,
      <<"G","P","L","-","2",".","0","+"," ","l","g","p","l">> }

NormalizerInputs == {p \o s \o q : p \in Pads, s \in LicenseSpellings, q \in Pads}

InitNormalize ==
    /\ Idle
    /\ pc = "normalize"
    /\ fs = [root |-> NoLockFiles, dirs |-> <<>>, store |-> <<>>]
    /\ \E f \in {"normalizedLicense", "normalizeLicense"}, x \in NormalizerInputs :
          arg = [fn |-> f, x |-> x]

\* detector.normalizedLicense applied to the argument, then to each result
CallNormalizedLicense ==
    /\ pc = "normalize"
    /\ arg.fn = "normalizedLicense"
    /\ Len(ret) < 2
    /\ ret' = Append(ret, normalizedLicense(IF ret = <<>> THEN arg.x ELSE ret[Len(ret)]))
    /\ UNCHANGED <<fs, analysis, enrichedDeps, currentPackage, pc, visited, lockFilePath, packageManager, dependencies,
                   handles, info, variant, result, err, arg>>

\* analyzer.normalizeLicense applied to the argument, then to each result
CallNormalizeLicense ==
    /\ pc = "normalize"
    /\ arg.fn = "normalizeLicense"
    /\ Len(ret) < 2
    /\ ret' = Append(ret, normalizeLicense(IF ret = <<>> THEN arg.x ELSE ret[Len(ret)]))
    /\ UNCHANGED <<fs, analysis, enrichedDeps, currentPackage, pc, visited, lockFilePath, packageManager, dependencies,
                   handles, info, variant, result, err, arg>>

NormalizeNext == CallNormalizedLicense \/ CallNormalizeLicense

SpecNormalize == InitNormalize /\ [][NormalizeNext]_vars

(***************************************************************************)
(* Properties of the license detector                                      *)
(***************************************************************************)
\* the directory DetectLicense inspects
Inspected == DirAt(arg)

\* what the package.json of the inspected directory declares ("" when the
\* file is missing, unreadable, malformed or declares nothing)
Declared ==
    IF Inspected.packageJSON.kind = "valid"
    THEN extractLicenseFromField(Inspected.packageJSON.license)
    ELSE <<>>

ClaimVariantOrder ==
    <<"LICENSE", "LICENSE.txt", "LICENSE.md", "LICENCE", "LICENCE.txt", "LICENCE.md">>

\* positions, in the documented order, of the names that exist as regular files
RegularVariants ==
    {i \in 1..6 : Inspected.entries[ClaimVariantOrder[i]].kind \in {"file", "openfail", "readfail"}}

FirstRegularVariant == CHOOSE i \in RegularVariants : \A j \in RegularVariants : i <= j

PositionOf(name) == CHOOSE i \in 1..6 : ClaimVariantOrder[i] = name

Returned == pc = "DetectLicense_return"

ClaimLockFileOrder == <<"package-lock.json", "yarn.lock", "pnpm-lock.yaml">>

ClaimManagers == <<"npm", "yarn", "pnpm">>

\* positions, in the documented order, of the lock files present in the root
ExistingLockFiles == {i \in 1..3 : fs.root[ClaimLockFileOrder[i]].kind # "absent"}

FirstExistingLockFile == CHOOSE i \in ExistingLockFiles : \A j \in ExistingLockFiles : i <= j

\* C1: whenever at least one of package-lock.json, yarn.lock and
\* pnpm-lock.yaml exists in the root, DetectLockFile returns the first
\* existing one in the order package-lock.json (npm), yarn.lock (yarn),
\* pnpm-lock.yaml (pnpm), on every run.
C1_LockFilePrecedence ==
    (pc = "DetectLockFile_return" /\ ExistingLockFiles # {}) =>
        /\ err = NIL
        /\ lockFilePath = ClaimLockFileOrder[FirstExistingLockFile]
        /\ packageManager = ClaimManagers[FirstExistingLockFile]

\* the detected lock file can be opened, read and parsed
DetectedLockFileUsable ==
    /\ lockFilePath \in DOMAIN fs.root
    /\ IF lockFilePath = "yarn.lock"
       THEN LockFile.kind = "file"
       ELSE LockFile.kind = "valid"

\* the number of packages the detected lock file names
ClaimEntryCount ==
    CASE lockFilePath = "package-lock.json" ->
            Cardinality({k \in DOMAIN LockFile.content.Packages : k # <<>>})
      [] lockFilePath = "pnpm-lock.yaml" -> Cardinality(LockFile.content)
      [] lockFilePath = "yarn.lock" ->
            Cardinality({i \in DOMAIN LockFile.content :
                            LockFile.content[i] # <<>>
                            /\ LockFile.content[i][Len(LockFile.content[i])] = ":"})

\* C2: Scan returns either a complete result with a nil error or a nil
\* result with an error, never a partial list.  It returns an error
\* exactly when no lock file exists in the root (the error then reads
\* "no lock file found ...") or when the detected lock file cannot be
\* opened, read or parsed.
C2_ScanAllOrNothing ==
    pc = "Scan_return" =>
        /\ \/ result # <<>> /\ err = NIL
           \/ result = <<>> /\ err # NIL
        /\ err # NIL <=> (ExistingLockFiles = {} \/ ~DetectedLockFileUsable)
        /\ ExistingLockFiles = {} => err = "no lock file found in ."
        /\ result # <<>> =>
              /\ Len(result[1].Dependencies) = ClaimEntryCount
              /\ \A i \in DOMAIN result[1].Dependencies :
                    /\ result[1].Dependencies[i].Name = dependencies[i].Name
                    /\ result[1].Dependencies[i].Version = dependencies[i].Version

C2_Witness ==
    /\ pc = "Scan_return"
    /\ fs.root["package-lock.json"].kind = "malformed"
    /\ fs.root["yarn.lock"].kind = "file"
    /\ lockFilePath = "package-lock.json"
    /\ result = <<>>
    /\ err = "failed to parse lock file: failed to parse package-lock.json"

\* C3: DetectLicense never fails: whatever the state of the package
\* directory it returns a non-nil LicenseInfo and a nil error, and when
\* package.json yields no license and no LICENSE/LICENCE variant is a
\* regular file the result is exactly Unknown / 0.0 / "not found".
C3_DetectLicenseNeverFails ==
    Returned =>
        /\ info # <<>>
        /\ err = NIL
        /\ (Declared = <<>> /\ RegularVariants = {}) =>
              info = Ptr(LicenseInfo(UnknownLicense, 0, "not found"))

C3_Witness ==
    /\ Returned
    /\ Inspected.packageJSON.kind = "malformed"
    /\ Inspected.entries["LICENSE"].kind = "dir"
    /\ RegularVariants = {}
    /\ info = Ptr(LicenseInfo(UnknownLicense, 0, "not found"))

\* C4: evidence is consulted in a fixed order and the first source that
\* yields a result decides: a non-empty license declared in package.json
\* wins over any LICENSE file; otherwise the first name of LICENSE,
\* LICENSE.txt, LICENSE.md, LICENCE, LICENCE.txt, LICENCE.md that is a
\* regular file gives the result (directories are skipped), whatever its
\* content, and no later name is examined or opened.
C4_EvidenceOrder ==
    /\ \A h \in handles :
          h[2] # "package.json" =>
              /\ Declared = <<>>
              /\ RegularVariants # {}
              /\ h[2] = ClaimVariantOrder[FirstRegularVariant]
    /\ (pc \in {"detectFromLicenseFile", "readLicenseFile"} /\ variant \in 1..6
            /\ RegularVariants # {}) =>
          PositionOf(LicenseFileVariants[variant]) <= FirstRegularVariant
    /\ Returned =>
          IF Declared # <<>>
          THEN info = Ptr(LicenseInfo(Declared, 10, "package.json"))
          ELSE IF RegularVariants # {}
          THEN LET chosen == Inspected.entries[ClaimVariantOrder[FirstRegularVariant]]
               IN  /\ info # <<>>
                   /\ info[1].Source = "LICENSE file"
                   /\ [license |-> info[1].License, confidence |-> info[1].Confidence]
                         \in (IF chosen.kind = "file" THEN analyzeLicenseFile(chosen.content)
                              ELSE {[license |-> UnknownLicense, confidence |-> 2]})
          ELSE info # <<>> /\ info[1].Source = "not found"

C4_Witness ==
    /\ Returned
    /\ Declared = <<>>
    /\ Inspected.entries["LICENSE"].kind = "absent"
    /\ Inspected.entries["LICENSE.txt"] = [kind |-> "file", content |-> <<"Some custom license text">>]
    /\ Inspected.entries["LICENCE"] = [kind |-> "file", content |-> <<"MIT License">>]
    /\ info = Ptr(LicenseInfo(UnknownLicense, 2, "LICENSE file"))

ClaimPatternOrder == <<LicMIT, LicApache20, LicGPL30, LicGPL20, LicBSD3, LicBSD2, LicISC>>

\* positions, in the documented order, of the table entries that match the
\* content of the chosen file
MatchingEntries(data) ==
    {i \in 1..7 : \E p \in patterns :
        p.license = ClaimPatternOrder[i] /\ MatchString(p, LowerContent(data))}

\* C5: when the content of the chosen LICENSE file matches several entries
\* of the pattern table, the entry earliest in the order MIT, Apache-2.0,
\* GPL-3.0, GPL-2.0, BSD-3-Clause, BSD-2-Clause, ISC is the one returned.
C5_FirstMatchWins ==
    (Returned /\ Declared = <<>> /\ RegularVariants # {}) =>
        LET chosen == Inspected.entries[ClaimVariantOrder[FirstRegularVariant]]
            matching == MatchingEntries(chosen.content)
        IN  (chosen.kind = "file" /\ matching # {}) =>
                info[1].License =
                    ClaimPatternOrder[CHOOSE i \in matching : \A j \in matching : i <= j]

\* the documented relation between confidence, source and license
ClaimConsistent(r) ==
    /\ r.Confidence \in {0, 2, 8, 9, 10}
    /\ r.Source = "package.json" <=> r.Confidence = 10
    /\ r.Source = "not found" => (r.License = <<"U","n","k","n","o","w","n">> /\ r.Confidence = 0)
    /\ r.Source = "LICENSE file" =>
          /\ r.License \in {LicMIT, LicApache20, LicGPL30, LicGPL20} => r.Confidence = 9
          /\ r.License \in {LicBSD3, LicBSD2, LicISC} => r.Confidence = 8
          /\ r.License = <<"U","n","k","n","o","w","n">> => r.Confidence = 2

\* C6: every LicenseInfo returned by DetectLicense and every
\* EnrichedDependency of Scan has a confidence among 0.0, 0.2, 0.8, 0.9 and
\* 1.0 that agrees with its source and license: "package.json" exactly with
\* 1.0; "not found" only with Unknown and 0.0; "LICENSE file" with 0.9 for
\* MIT, Apache-2.0, GPL-3.0, GPL-2.0, with 0.8 for BSD-3-Clause,
\* BSD-2-Clause, ISC, and with 0.2 for Unknown.
C6_ConfidenceConsistent ==
    /\ pc = "DetectLicense_return" => (info # <<>> /\ ClaimConsistent(info[1]))
    /\ \A i \in DOMAIN enrichedDeps : ClaimConsistent(enrichedDeps[i])
    /\ (pc = "Scan_return" /\ result # <<>>) =>
          \A i \in DOMAIN result[1].Dependencies :
              ClaimConsistent(result[1].Dependencies[i])

C6_Witness ==
    /\ pc = "Scan_return"
    /\ result # <<>>
    /\ \E i, j \in DOMAIN result[1].Dependencies :
          /\ result[1].Dependencies[i].Source = "LICENSE file"
          /\ result[1].Dependencies[i].License = LicApache20
          /\ result[1].Dependencies[i].Confidence = 9
          /\ result[1].Dependencies[j].Source = "LICENSE file"
          /\ result[1].Dependencies[j].License = <<"U","n","k","n","o","w","n">>
          /\ result[1].Dependencies[j].Confidence = 2

\* the raw string the claim extracts from a license field
RECURSIVE ClaimExtract(_)
ClaimExtract(field) ==
    CASE field.kind = "string" -> field.val
      [] field.kind = "object" /\ Len(field.val) = 1 /\ field.val[1].kind = "string"
            -> field.val[1].val
      [] field.kind = "array" /\ Len(field.val) > 0 -> ClaimExtract(field.val[1])
      [] OTHER -> <<>>

\* the documented synonym table: lower-case spelling, canonical id
ClaimSynonyms ==
    { << <<"m","i","t">>, LicMIT >>,
      << <<"a","p","a","c","h","e","-","2",".","0">>, LicApache20 >>,
      << <<"a","p","a","c","h","e","2">>, LicApache20 >>,
      << <<"a","p","a","c","h","e","-","v","2">>, LicApache20 >>,
      << <<"g","p","l","-","3",".","0">>, LicGPL30 >>,
      << <<"g","p","l","v","3">>, LicGPL30 >>,
      << <<"g","p","l","3">>, LicGPL30 >>,
      << <<"g","p","l","-","2",".","0">>, LicGPL20 >>,
      << <<"g","p","l","v","2">>, LicGPL20 >>,
      << <<"g","p","l","2">>, LicGPL20 >>,
      << <<"b","s","d","-","3","-","c","l","a","u","s","e">>, LicBSD3 >>,
      << <<"b","s","d","3">>, LicBSD3 >>,
      << <<"b","s","d","-","2","-","c","l","a","u","s","e">>, LicBSD2 >>,
      << <<"b","s","d","2">>, LicBSD2 >>,
      << <<"i","s","c">>, LicISC >> }

ClaimNormalize(x) ==
    LET hyphenated == ReplaceAll(TrimSpace(x), " ", <<"-">>)
        hits == {e \in ClaimSynonyms : e[1] = ToLower(hyphenated)}
    IN  IF hits = {} THEN hyphenated ELSE (CHOOSE e \in hits : TRUE)[2]

\* C7: the license reported from package.json is normalize(extract(field)):
\* extract takes a string itself, the string under "type" of an object, the
\* extraction of the first element of a non-empty array, and "" otherwise;
\* normalize trims, hyphenates and maps the documented synonyms.  A
\* non-empty result is returned with confidence 1.0 and source
\* "package.json"; an empty one falls through to the LICENSE-file tier.
C7_PackageJSONLicense ==
    (Inspected.packageJSON.kind = "valid" /\ pc \notin {"DetectLicense", "readPackageJSON"}) =>
        LET expected == ClaimNormalize(ClaimExtract(Inspected.packageJSON.license))
        IN  IF expected # <<>>
            THEN Returned /\ info = Ptr(LicenseInfo(expected, 10, "package.json"))
            ELSE \/ pc \in {"detectFromLicenseFile", "readLicenseFile"}
                 \/ Returned /\ info # <<>> /\ info[1].Source \in {"LICENSE file", "not found"}

C7_Witness ==
    /\ Returned
    /\ Inspected.packageJSON.license =
          JArray(<<JArray(<<JObject(<<JString(<<"b","s","d","3">>)>>), JString(LicApache20)>>),
                   JString(LicApache20)>>)
    /\ info = Ptr(LicenseInfo(LicBSD3, 10, "package.json"))

\* C8: both normalizers are idempotent: applying detector.normalizedLicense
\* (analyzer.normalizeLicense) to its own result gives that result again.
C8_NormalizationIdempotent == Len(ret) = 2 => ret[2] = ret[1]

C8_Witness ==
    /\ Len(ret) = 2
    /\ arg = [fn |-> "normalizedLicense",
              x |-> <<"\t","B","S","D"," ","3"," ","C","l","a","u","s","e"," ">>]
    /\ ret[1] = LicBSD3

(***************************************************************************)
(* Properties of NPMParser.Parse                                           *)
(***************************************************************************)
ParseSucceeded == pc = "Parse_return" /\ err = NIL /\ result # <<>>

\* the number of times x occurs in the sequence s
Occurrences(s, x) == Cardinality({i \in DOMAIN s : s[i] = x})

\* the name the claim derives from a key that starts with "node_modules/"
ClaimPackageName(key) ==
    LET rest == SubSeq(key, 14, Len(key))
        segments == Split(rest, "/")
    IN  IF rest # <<>> /\ rest[1] = "@" /\ Len(segments) >= 2
        THEN segments[1] \o <<"/">> \o segments[2]
        ELSE segments[1]

\* the keys of `packages` that the claim says yield a record
SurvivingKeys ==
    {k \in DOMAIN LockFile.content.Packages :
        /\ k # <<>>
        /\ HasPrefix(k, <<"n","o","d","e","_","m","o","d","u","l","e","s","/">>)
        /\ ClaimPackageName(k) # <<>>}

ClaimRecord(k) ==
    Dependency(ClaimPackageName(k), LockFile.content.Packages[k].Version,
               LockFile.content.Packages[k].License)

\* the parsed list holds exactly one record per surviving key of `packages`
PrimaryResult(deps) ==
    /\ Len(deps) = Cardinality(SurvivingKeys)
    /\ \A k \in SurvivingKeys :
          Occurrences(deps, ClaimRecord(k))
              = Cardinality({j \in SurvivingKeys : ClaimRecord(j) = ClaimRecord(k)})

\* C9: primary path of NPMParser.Parse: the root key "" is skipped and
\* every other key that starts with "node_modules/" and derives a
\* non-empty name yields exactly one Dependency with that entry's version
\* and license and the derived name (first segment, or the first two
\* segments joined by "/" for a scoped package); other keys yield nothing.
C9_NPMPrimaryPath ==
    (ParseSucceeded /\ SurvivingKeys # {}) => PrimaryResult(result[1])

C9_Witness ==
    /\ ParseSucceeded
    /\ DOMAIN LockFile.content.Packages =
          { <<>>,
            <<"n","o","d","e","_","m","o","d","u","l","e","s","/","@","s","/","b","/","l","i","b","/","x",".","t","s">>,
            <<"n","o","d","e","_","m","o","d","u","l","e","s","/","a","/","n","o","d","e","_","m","o","d","u","l","e","s","/","b">> }
    /\ Len(result[1]) = 2
    /\ {result[1][i].Name : i \in 1..2} = { <<"@","s","/","b">>, <<"a">> }

\* the number of nodes of a legacy tree that equal the record rec, and with
\* any = TRUE the number of all its nodes
RECURSIVE CountNodes(_, _, _)
CountNodes(tree, rec, any) ==
    IF DOMAIN tree = {} THEN 0
    ELSE LET n == CHOOSE m \in DOMAIN tree : TRUE
             rest == [m \in DOMAIN tree \ {n} |-> tree[m]]
         IN  (IF any \/ rec = Dependency(n, tree[n].Version, <<>>) THEN 1 ELSE 0)
             + (IF tree[n].Dependencies # <<>>
                THEN CountNodes(tree[n].Dependencies[1], rec, any) ELSE 0)
             + CountNodes(rest, rec, any)

\* C10: legacy fallback of NPMParser.Parse: the `dependencies` tree is used
\* if and only if `packages` yields no dependency and a `dependencies` map
\* is present; the result then has one Dependency per node of the tree at
\* every depth, with the node's name and version and no license, nodes of
\* the same name at different levels all kept.  Otherwise the tree
\* contributes nothing.
C10_NPMLegacyFallback ==
    ParseSucceeded =>
        IF SurvivingKeys = {} /\ LockFile.content.Dependencies # <<>>
        THEN LET tree == LockFile.content.Dependencies[1]
                 deps == result[1]
             IN  /\ Len(deps) = CountNodes(tree, <<>>, TRUE)
                 /\ \A i \in DOMAIN deps :
                       /\ deps[i].License = <<>>
                       /\ Occurrences(deps, deps[i]) = CountNodes(tree, deps[i], FALSE)
        ELSE PrimaryResult(result[1])

C10_Witness ==
    /\ ParseSucceeded
    /\ SurvivingKeys = {}
    /\ LockFile.content.Dependencies # <<>>
    /\ Len(result[1]) = 4
    /\ Occurrences(result[1], Dependency(<<"a">>, <<"2",".","0">>, <<>>)) = 2
    /\ Occurrences(result[1], Dependency(<<"a">>, <<"1",".","0">>, <<>>)) = 1

\* positions of the lines of a yarn.lock that are recognised as headers
YarnHeaders(lines) == {i \in DOMAIN lines : packageRe(lines[i]) # <<>>}

\* the k-th header position
YarnHeaderAt(lines, k) ==
    CHOOSE i \in YarnHeaders(lines) : Cardinality({j \in YarnHeaders(lines) : j < i}) = k - 1

\* the version of the header at position h: the value of the last version
\* line after h and before the next header, empty when there is none
ClaimYarnVersion(lines, h) ==
    LET next == {i \in YarnHeaders(lines) : i > h}
        stop == IF next = {} THEN Len(lines) + 1
                ELSE CHOOSE i \in next : \A j \in next : i <= j
        vs == {i \in (h + 1)..(stop - 1) : versionRe(lines[i]) # <<>>}
    IN  IF vs = {} THEN <<>>
        ELSE versionRe(lines[CHOOSE i \in vs : \A j \in vs : j <= i])[1]

\* the records the claim gives for a sequence of lines
ClaimYarnRecords(lines) ==
    [k \in 1..Cardinality(YarnHeaders(lines)) |->
        [Name |-> packageRe(lines[YarnHeaderAt(lines, k)])[1],
         Version |-> ClaimYarnVersion(lines, YarnHeaderAt(lines, k)),
         License |-> <<>>]]

\* C11: YarnParser.Parse is a single-accumulator machine over the lines in
\* file order: after any number of lines, the records appended so far
\* followed by the open accumulator are one record per recognised header,
\* in header order, each with the value of the last version line between
\* its header and the next one (empty when there is none) and an empty
\* license; version lines before the first header change nothing; at the
\* end of the input the open accumulator is flushed into the result.
C11_YarnAccumulator ==
    /\ pc = "YarnParser.Scan" =>
          dependencies \o currentPackage
              = ClaimYarnRecords(SubSeq(LockFile.content, 1, Cardinality(visited)))
    /\ (pc = "Parse_return" /\ err = NIL) =>
          result = <<ClaimYarnRecords(LockFile.content)>>

C11_Witness ==
    /\ pc = "Parse_return"
    /\ err = NIL
    /\ Len(LockFile.content) = 4
    /\ versionRe(LockFile.content[1]) # <<>>
    /\ packageRe(LockFile.content[2]) # <<>>
    /\ versionRe(LockFile.content[3]) # <<>>
    /\ versionRe(LockFile.content[4]) # <<>>
    /\ LockFile.content[3] # LockFile.content[4]
    /\ Len(result[1]) = 1
    /\ result[1][1].Version = versionRe(LockFile.content[4])[1]

\* a name the claim covers: free of "@", or @scope/rest with a scope free
\* of "/" and "@" and a rest free of "@"
ClaimPnpmName(name) ==
    /\ name # <<>>
    /\ \/ \A i \in DOMAIN name : name[i] # "@"
       \/ /\ name[1] = "@"
          /\ \E j \in 3..(Len(name) - 1) :
                /\ name[j] = "/"
                /\ \A i \in 2..(j - 1) : name[i] \notin {"/", "@"}
                /\ \A i \in (j + 1)..Len(name) : name[i] # "@"

\* no "@" of the key, its leading "/" apart, has a character on both sides
ClaimNoSeparator(packageKey) ==
    LET key == IF packageKey # <<>> /\ packageKey[1] = "/" THEN Tail(packageKey) ELSE packageKey
    IN  \A i \in DOMAIN key : key[i] = "@" => (i = 1 \/ i = Len(key))

CurrentDep == dependencies[Len(enrichedDeps) + 1]

\* C13: for npm and yarn the resolved path is root/node_modules/<name>.
\* For pnpm, with S = root/node_modules/.pnpm, it is the first existing
\* path among S/<name>@<version>/node_modules/<name>, the same with "@"
\* of the name written "%40", S/<entry>/node_modules/<name> for a
\* directory entry of S whose name starts with the name or the encoded
\* name followed by "@", and the hoisted root/node_modules/<name>; when
\* none exists it is S/<name>@<version>/node_modules/<name>.  So when only
\* the hoisted directory exists the resolved path exists.
C13_InstallPathResolution ==
    pc = "DetectLicense" =>
        LET name == CurrentDep.Name
            version == CurrentDep.Version
            encoded == ReplaceAll(name, "@", <<"%", "4", "0">>)
            S == <<rootPath, NodeModulesDir, PnpmStoreDir>>
            exact == Join(S \o <<name \o <<"@">> \o version, NodeModulesDir, name>>)
            exactEncoded == Join(S \o <<encoded \o <<"@">> \o version, NodeModulesDir, name>>)
            listed == IF fs.store = <<>> THEN {}
                      ELSE {fs.store[1][i] : i \in DOMAIN fs.store[1]}
            scanned == {Join(S \o <<e.Name, NodeModulesDir, name>>) :
                            e \in {x \in listed :
                                     /\ x.IsDir
                                     /\ \/ HasPrefix(x.Name, name \o <<"@">>)
                                        \/ HasPrefix(x.Name, encoded \o <<"@">>)}}
            hoisted == Join(<<rootPath, NodeModulesDir, name>>)
        IN  IF packageManager \in {"npm", "yarn"} THEN arg = hoisted
            ELSE /\ IF pathExists(exact) THEN arg = exact
                    ELSE IF pathExists(exactEncoded) THEN arg = exactEncoded
                    ELSE IF \E q \in scanned : pathExists(q)
                    THEN arg \in scanned /\ pathExists(arg)
                    ELSE IF pathExists(hoisted) THEN arg = hoisted
                    ELSE arg = exact
                 /\ (pathExists(hoisted) /\ \A q \in DOMAIN fs.dirs : q = hoisted) =>
                        pathExists(arg)

C13_Witness ==
    /\ pc = "DetectLicense"
    /\ packageManager = "pnpm"
    /\ DOMAIN fs.dirs = {HoistedA}
    /\ fs.store # <<>>
    /\ CurrentDep.Name = <<"a">>
    /\ arg = HoistedA

\* C14: when parsing succeeds Scan's list has one EnrichedDependency per
\* Dependency of the parser, in the same order, with name and version
\* unchanged; an entry whose detection failed is Unknown / 0.0 /
\* "detection failed", and the dependencies after it are still processed.
C14_OnePerDependency ==
    /\ Len(enrichedDeps) <= Len(dependencies)
    /\ \A i \in DOMAIN enrichedDeps :
          /\ enrichedDeps[i].Name = dependencies[i].Name
          /\ enrichedDeps[i].Version = dependencies[i].Version
          /\ enrichedDeps[i].Source = "detection failed" =>
                /\ enrichedDeps[i].License = <<"U","n","k","n","o","w","n">>
                /\ enrichedDeps[i].Confidence = 0
    /\ (pc = "Scan_return" /\ err = NIL) =>
          /\ result # <<>>
          /\ result[1].Dependencies = enrichedDeps
          /\ Len(enrichedDeps) = Len(dependencies)

C14_Witness ==
    /\ pc = "Scan_return"
    /\ err = NIL
    /\ packageManager = "yarn"
    /\ Len(result[1].Dependencies) = 2
    /\ result[1].Dependencies[1].Name = <<"a">>
    /\ result[1].Dependencies[1].Version = <<"1", ".", "0", ".", "0">>
    /\ result[1].Dependencies[1].Source = "not found"
    /\ result[1].Dependencies[2].Name = <<"@", "s", "/", "b">>
    /\ result[1].Dependencies[2].Version = <<"2", ".", "0", ".", "0">>
    /\ result[1].Dependencies[2].Source = "LICENSE file"

Analyzed == pc = "Analyze_return"

\* the normalized license of the i-th dependency given to Analyze
Normalized(i) == normalizeLicense(arg[i].License)

ClaimPermissive == {LicMIT, LicISC, LicBSD2, LicBSD3, LicApache20}

ClaimStrongCopyleft == {LicGPL20, LicGPL30, LicAGPL30}

\* the input is n dependencies: MIT ones at full confidence and exactly
\* one with the license other
MITAndOne(other) ==
    /\ \E i \in DOMAIN arg : Normalized(i) = other
    /\ \E i \in DOMAIN arg : Normalized(i) = LicMIT
    /\ Cardinality({i \in DOMAIN arg : Normalized(i) # LicMIT}) = 1
    /\ \A i \in DOMAIN arg : Normalized(i) = LicMIT => arg[i].Confidence = 10

\* the input is permissive dependencies, exactly n of them below 0.5
PermissiveWithLow(n) ==
    /\ \A i \in DOMAIN arg : Normalized(i) \in ClaimPermissive
    /\ Cardinality({i \in DOMAIN arg : arg[i].Confidence < 5}) = n

\* C15: the risk level follows from the tallies Analyze holds by exact
\* thresholds: "high" if strongCopyleft > 0 or unknown > 5, else "medium"
\* if weakCopyleft > 0 or unknown > 0 or lowConfidence > 3, else "low".
\* One GPL-3.0 among MIT gives "high", one LGPL-2.1 among MIT "medium",
\* 3 low-confidence permissive dependencies "low" and 4 "medium".
C15_RiskThresholds ==
    Analyzed =>
        LET level == result[1].RiskLevel IN
        /\ level = "high" <=>
              (analysis.strongCopyleftCount > 0 \/ analysis.unknownCount > 5)
        /\ level = "medium" <=>
              /\ ~(analysis.strongCopyleftCount > 0 \/ analysis.unknownCount > 5)
              /\ \/ analysis.weakCopyleftCount > 0
                 \/ analysis.unknownCount > 0
                 \/ analysis.lowConfidenceCount > 3
        /\ level \in {"high", "medium", "low"}
        /\ MITAndOne(LicGPL30) => level = "high"
        /\ MITAndOne(LicLGPL21) => level = "medium"
        /\ PermissiveWithLow(3) => level = "low"
        /\ PermissiveWithLow(4) => level = "medium"

C15_Witness ==
    /\ Analyzed
    /\ PermissiveWithLow(4)
    /\ Len(arg) = 5
    /\ result[1].RiskLevel = "medium"

\* C16: a list with a strong-copyleft license, or with more than 5
\* dependencies whose normalized license is not in the category table,
\* gives "high" whatever else it holds; and the unknown tally behind the
\* risk level and the unknown-license recommendation is the number of
\* entries that are not in the table and not literally "Unknown".
C16_UnknownTally ==
    Analyzed =>
        /\ ( \/ \E i \in DOMAIN arg : Normalized(i) \in ClaimStrongCopyleft
             \/ Cardinality({i \in DOMAIN arg : Normalized(i) \notin DOMAIN KnownLicenses}) > 5 )
              => result[1].RiskLevel = "high"
        /\ analysis.unknownCount =
              Cardinality({i \in DOMAIN arg :
                              /\ Normalized(i) \notin DOMAIN KnownLicenses
                              /\ Normalized(i) # <<"U","n","k","n","o","w","n">>})

AllClear ==
    [format |-> "All licenses are permissive and compatible - no compliance issues detected",
     args |-> <<>>]

\* what the all-permissive rule promises of the returned result
LowAndAllClear ==
    /\ result[1].RiskLevel = "low"
    /\ result[1].Conflicts = <<>>
    /\ result[1].Recommendations = <<AllClear>>

\* C17 as stated: a list in which every normalized license is in the
\* Permissive category gives "low", no conflicts and the all-clear message
\* as the only recommendation.
C17_AllPermissive ==
    (Analyzed /\ \A i \in DOMAIN arg : Normalized(i) \in ClaimPermissive)
        => LowAndAllClear

\* C17 amended: a list in which every normalized license is in the
\* Permissive category and every confidence is at least 0.5 gives "low",
\* no conflicts and the all-clear message as the only recommendation.
C17_AllPermissiveConfident ==
    (/\ Analyzed
     /\ \A i \in DOMAIN arg : Normalized(i) \in ClaimPermissive
     /\ \A i \in DOMAIN arg : arg[i].Confidence >= 5)
        => LowAndAllClear

C17_Witness ==
    /\ Analyzed
    /\ Len(arg) >= 2
    /\ \A i \in DOMAIN arg : Normalized(i) \in ClaimPermissive /\ arg[i].Confidence >= 5
    /\ \E i \in DOMAIN arg : Normalized(i) = LicMIT
    /\ \E i \in DOMAIN arg : Normalized(i) = LicApache20
    /\ LowAndAllClear

\* some dependency of the input has the normalized license l
Present(l) == \E i \in DOMAIN arg : Normalized(i) = l

\* the sequence <<x>> when the condition holds, the empty one otherwise
When(condition, lines) == IF condition THEN lines ELSE <<>>

WarnAGPL == "AGPL-3.0 requires source disclosure for network use - ensure compliance"

WarnGPL2Apache == "GPL-2.0 and Apache-2.0 licenses are incompatible"

WarnGPL2GPL3 == "GPL-2.0 and GPL-3.0 detected - verify 'or later' clauses for compatibility"

\* C18: the conflicts are exactly the warnings whose condition holds,
\* each once and in this order: the network-use warning when AGPL-3.0 is
\* present, the "GPL-2.0 and Apache-2.0" warning when both are present,
\* the "GPL-2.0 and GPL-3.0" warning when both are present; the list is
\* empty when no condition holds.
C18_ConflictRules ==
    Analyzed =>
        /\ result[1].Conflicts =
              When(Present(LicAGPL30), <<WarnAGPL>>)
              \o When(Present(LicGPL20) /\ Present(LicApache20), <<WarnGPL2Apache>>)
              \o When(Present(LicGPL20) /\ Present(LicGPL30), <<WarnGPL2GPL3>>)
        /\ (/\ ~Present(LicAGPL30)
            /\ ~(Present(LicGPL20) /\ Present(LicApache20))
            /\ ~(Present(LicGPL20) /\ Present(LicGPL30)))
              => result[1].Conflicts = <<>>

C18_Witness ==
    /\ Analyzed
    /\ Present(LicApache20)
    /\ Present(LicGPL20)
    /\ ~Present(LicGPL30)
    /\ Present(LicAGPL30)
    /\ result[1].Conflicts = <<WarnAGPL, WarnGPL2Apache>>

\* all three rules at once
C18_AllThree ==
    /\ Analyzed
    /\ result[1].Conflicts = <<WarnAGPL, WarnGPL2Apache, WarnGPL2GPL3>>

\* Apache-2.0 without GPL-2.0 is no conflict
C18_ApacheAlone ==
    /\ Analyzed
    /\ Present(LicApache20)
    /\ ~Present(LicGPL20)
    /\ Present(LicGPL30)
    /\ result[1].Conflicts = <<>>

ClaimWeakCopyleft == {LicLGPL21, LicLGPL30, LicMPL20}

\* the number of dependencies whose normalized license is in the set
NumberIn(licenses) == Cardinality({i \in DOMAIN arg : Normalized(i) \in licenses})

Line(format, args) == [format |-> format, args |-> args]

ConflictSummary ==
    Line("License conflicts detected - review dependencies for compatibility issues", <<>>)

StrongLines(n) ==
    << Line("Found %d GPL/AGPL dependencies - ensure compliance with copyleft requirements", <<n>>),
       Line("Consider legal review if distributing proprietary software", <<>>) >>

WeakLine(n) ==
    Line("Found %d LGPL/MPL dependencies - these allow proprietary use with conditions", <<n>>)

UnknownLines(n) ==
    << Line("%d dependencies have unknown licenses - manual review required", <<n>>),
       Line("Check package repositories or contact maintainers for license clarification", <<>>) >>

LowConfidenceLine(n) ==
    Line("%d dependencies have low-confidence license detection - verify manually", <<n>>)

\* C19: the recommendations are never empty and are, in this order, the
\* conflict summary iff there is a conflict, the two strong-copyleft lines
\* iff a strong-copyleft dependency was counted, the weak-copyleft line iff
\* a weak-copyleft dependency was counted and LGPL or MPL appeared, the two
\* unknown-license lines iff the unknown tally is positive, the
\* low-confidence line iff the low-confidence tally is positive; the
\* all-clear message appears iff none of these holds and is then the only
\* element.
C19_RecommendationOrder ==
    Analyzed =>
        LET recs == result[1].Recommendations
            strong == NumberIn(ClaimStrongCopyleft)
            weak == NumberIn(ClaimWeakCopyleft)
            unknown == analysis.unknownCount
            low == analysis.lowConfidenceCount
            hasConflicts == result[1].Conflicts # <<>>
            weakShown == weak > 0 /\ \E l \in ClaimWeakCopyleft : Present(l)
            none == /\ ~hasConflicts
                    /\ strong = 0
                    /\ ~weakShown
                    /\ unknown = 0
                    /\ low = 0
            AllClearLine ==
                Line("All licenses are permissive and compatible - no compliance issues detected",
                     <<>>)
        IN  /\ Len(recs) > 0
            /\ recs = When(hasConflicts, <<ConflictSummary>>)
                      \o When(strong > 0, StrongLines(strong))
                      \o When(weakShown, <<WeakLine(weak)>>)
                      \o When(unknown > 0, UnknownLines(unknown))
                      \o When(low > 0, <<LowConfidenceLine(low)>>)
                      \o When(none, <<AllClearLine>>)
            /\ (\E k \in DOMAIN recs : recs[k] = AllClearLine) <=> none
            /\ none => recs = <<AllClearLine>>

\* a conflict, strong and weak copyleft, an unknown license and a low
\* confidence at once: seven lines
C19_Witness ==
    /\ Analyzed
    /\ Len(result[1].Recommendations) = 7
    /\ result[1].Recommendations[1] = ConflictSummary
    /\ result[1].Recommendations[7] = LowConfidenceLine(1)
    /\ Present(LicLGPL21)

\* the sum of the values of licenseCounts over the given keys
RECURSIVE SumOver(_, _)
SumOver(licenseCounts, keys) ==
    IF keys = {} THEN 0
    ELSE LET k == CHOOSE x \in keys : TRUE
         IN  licenseCounts[k] + SumOver(licenseCounts, keys \ {k})

\* C20: licenseCounts maps each normalized license of the input to the
\* number of dependencies that normalize to it and has no other key; every
\* value is at least 1, the values sum to the length of the input, and
\* dependencies that repeat a name are each counted.
C20_LicenseCounts ==
    Analyzed =>
        LET counts == result[1].LicenseCounts IN
        /\ DOMAIN counts = {Normalized(i) : i \in DOMAIN arg}
        /\ \A k \in DOMAIN counts :
              /\ counts[k] = Cardinality({i \in DOMAIN arg : Normalized(i) = k})
              /\ counts[k] >= 1
        /\ SumOver(counts, DOMAIN counts) = Len(arg)

\* the same dependency three times among others
C20_Witness ==
    /\ Analyzed
    /\ \E i, j, k \in DOMAIN arg :
          /\ i < j /\ j < k
          /\ arg[i] = arg[j] /\ arg[j] = arg[k]
          /\ result[1].LicenseCounts[Normalized(i)] = 3
    /\ Cardinality(DOMAIN result[1].LicenseCounts) >= 2

\* the number of dependencies given to Analyze with a confidence below 0.5
NumberLowConfidence == Cardinality({i \in DOMAIN arg : arg[i].Confidence < 5})

\* C21: the low-confidence count behind the risk level and behind the
\* low-confidence recommendation is the number of input dependencies
\* whose confidence is below 0.5: more than 3 of them give at least
\* "medium", and the recommendation names that number when it is positive.
C21_LowConfidenceCount ==
    Analyzed =>
        /\ analysis.lowConfidenceCount = NumberLowConfidence
        /\ NumberLowConfidence > 3 => result[1].RiskLevel # "low"
        /\ NumberLowConfidence > 0 =>
              \E k \in DOMAIN result[1].Recommendations :
                  result[1].Recommendations[k] = LowConfidenceLine(NumberLowConfidence)

\* a directory in which every file that cannot be opened or read is absent
WithoutUnreadable(dir) ==
    [packageJSON |-> IF dir.packageJSON.kind \in {"openfail", "readfail"}
                     THEN [kind |-> "absent", license |-> JNull]
                     ELSE dir.packageJSON,
     entries |-> [n \in DOMAIN dir.entries |->
                     IF dir.entries[n].kind \in {"openfail", "readfail"}
                     THEN AbsentEntry
                     ELSE dir.entries[n]]]

\* the results the detection rules allow for a directory without
\* unreadable files: the declared license, else the analysis of the first
\* variant that is a regular file, else not found
RECURSIVE ClaimFromVariant(_, _)
ClaimFromVariant(dir, v) ==
    IF v > Len(LicenseFileVariants)
    THEN {LicenseInfo(UnknownLicense, 0, NotFoundSource)}
    ELSE LET entry == dir.entries[LicenseFileVariants[v]]
         IN  IF entry.kind = "file"
             THEN {LicenseInfo(r.license, r.confidence, LicenseFileSource) :
                     r \in analyzeLicenseFile(entry.content)}
             ELSE ClaimFromVariant(dir, v + 1)

ClaimDetect(dir) ==
    IF dir.packageJSON.kind = "valid" /\ extractLicenseFromField(dir.packageJSON.license) # <<>>
    THEN {LicenseInfo(extractLicenseFromField(dir.packageJSON.license), 10, PackageJSONSource)}
    ELSE ClaimFromVariant(dir, 1)

\* C22: a package.json or LICENSE variant that exists but cannot be opened
\* or read gives the result DetectLicense gives when that file does not
\* exist: detection falls through to the next source.
C22_IOFailureAsAbsence ==
    pc = "DetectLicense_return" =>
        /\ info # <<>>
        /\ info[1] \in ClaimDetect(WithoutUnreadable(DirAt(arg)))

\* the part of it that concerns package.json alone
C22_PackageJSONFailure ==
    (/\ pc = "DetectLicense_return"
     /\ \A n \in VariantNames : DirAt(arg).entries[n].kind \notin {"openfail", "readfail"})
        => (info # <<>> /\ info[1] \in ClaimDetect(WithoutUnreadable(DirAt(arg))))

\* the second scan has returned
SecondScanReturned == pc = "Scan_return" /\ ret # <<>>

\* the two lists hold the same entries the same number of times (the npm
\* and pnpm parsers list the dependencies in the order of a Go map)
SameEntries(a, b) ==
    /\ Len(a) = Len(b)
    /\ \A i \in DOMAIN a :
          Cardinality({j \in DOMAIN a : a[j] = a[i]})
              = Cardinality({j \in DOMAIN b : b[j] = a[i]})

\* the second scan returned what the first one returned
SameAsFirstScan ==
    /\ err = ret[1].err
    /\ (result = <<>>) <=> (ret[1].result = <<>>)
    /\ result # <<>> => SameEntries(result[1].Dependencies, ret[1].result[1].Dependencies)

\* only this lock file is present, so that the lock file chosen does not
\* depend on the order in which the candidates are probed
OnlyLockFile(name) ==
    \A n \in DOMAIN fs.root : fs.root[n].kind # "absent" <=> n = name

\* no license file matches two patterns, so that the license detected
\* does not depend on the order in which the patterns are tried
NoDualFile ==
    \A path \in DOMAIN fs.dirs : \A n \in VariantNames :
        LET entry == fs.dirs[path].entries[n]
        IN  entry.kind = "file" => Cardinality(analyzeLicenseFile(entry.content)) = 1

\* C23 for a project whose only lock file is pnpm-lock.yaml: two scans
\* given the same injected file system return the same result whatever
\* the operating system's file system contains.
C23_OnlyInjectedFS ==
    (SecondScanReturned /\ OnlyLockFile("pnpm-lock.yaml") /\ NoDualFile)
        => SameAsFirstScan

\* the same for a project with package-lock.json alone or yarn.lock alone
C23_NPMAndYarn ==
    (/\ SecondScanReturned
     /\ OnlyLockFile("package-lock.json") \/ OnlyLockFile("yarn.lock")
     /\ NoDualFile)
        => SameAsFirstScan

\* the header lines of the yarn.lock vocabulary, as the format defines
\* them, with the name of their first descriptor: a@^1.0.0:,
\* "@s/b@^2.0.0":, a@^1.0.0, a@~1.1.0: and "@s/b@1", "@s/b@2":
ClaimHeaderName(line) ==
    CASE line = <<"a", "@", "^", "1", ".", "0", ".", "0", ":">> -> <<"a">>
      [] line = <<"\"", "@", "s", "/", "b", "@", "^", "2", ".", "0", ".", "0", "\"", ":">>
            -> <<"@", "s", "/", "b">>
      [] line = <<"a", "@", "^", "1", ".", "0", ".", "0", ",", " ",
                  "a", "@", "~", "1", ".", "1", ".", "0", ":">> -> <<"a">>
      [] line = <<"\"", "@", "s", "/", "b", "@", "1", "\"", ",", " ",
                  "\"", "@", "s", "/", "b", "@", "2", "\"", ":">> -> <<"@", "s", "/", "b">>
      [] OTHER -> <<>>

\* C24: every header line (one or more comma-separated descriptors, each
\* optionally in double quotes, then ":") starts a new Dependency named
\* after its first descriptor, also when several descriptors are quoted
\* one by one; the parser returns one record per header line, so that no
\* version line is attributed to the preceding package.
C24_EveryHeaderRecognised ==
    /\ (pc = "YarnParser.Scan" /\ visited # {}) =>
          LET name == ClaimHeaderName(LockFile.content[Cardinality(visited)])
          IN  name # <<>> => currentPackage = <<[Name |-> name, Version |-> <<>>, License |-> <<>>]>>
    /\ (pc = "Parse_return" /\ err = NIL) =>
          Len(result[1])
              = Cardinality({i \in DOMAIN LockFile.content :
                                ClaimHeaderName(LockFile.content[i]) # <<>>})

\* the same without the header whose descriptors are quoted one by one
C24_OtherHeaders ==
    (\A i \in DOMAIN LockFile.content :
        packageRe(LockFile.content[i]) # <<>> <=> ClaimHeaderName(LockFile.content[i]) # <<>>)
        => C24_EveryHeaderRecognised

\* the classification by substring tests in the order given: the first
\* rule of rules that applies to the lower-cased string decides, and the
\* string passes through when none applies
ClaimRuleApplies(rule, lower) ==
    /\ Contains(lower, rule.word)
    /\ rule.digit # <<>> => Contains(lower, rule.digit)

ClaimClassify(rules, normalized) ==
    LET lower == ToLower(normalized)
        hits == {k \in DOMAIN rules : ClaimRuleApplies(rules[k], lower)}
    IN  IF hits = {} THEN normalized
        ELSE rules[CHOOSE k \in hits : \A j \in hits : k <= j].to

RuleAGPL == [word |-> <<"a","g","p","l">>, digit |-> <<>>, to |-> LicAGPL30]

RuleLGPL3 == [word |-> <<"l","g","p","l">>, digit |-> <<"3">>, to |-> LicLGPL30]

RuleLGPL2 == [word |-> <<"l","g","p","l">>, digit |-> <<"2">>, to |-> LicLGPL21]

RuleGPL3 == [word |-> <<"g","p","l">>, digit |-> <<"3">>, to |-> LicGPL30]

RuleGPL2 == [word |-> <<"g","p","l">>, digit |-> <<"2">>, to |-> LicGPL20]

RuleApache == [word |-> <<"a","p","a","c","h","e">>, digit |-> <<>>, to |-> LicApache20]

\* analyzer.normalizeLicense has been applied to arg.x
NormalizeLicenseApplied == arg.fn = "normalizeLicense" /\ Len(ret) >= 1

\* "Apache 2.0", "apache-2.0" and "Apache-2.0" all become Apache-2.0
ApacheSpellingsCollapse ==
    (NormalizeLicenseApplied
        /\ TrimSpace(arg.x) \in {<<"A","p","a","c","h","e"," ","2",".","0">>,
                                 <<"a","p","a","c","h","e","-","2",".","0">>, LicApache20})
        => ret[1] = LicApache20

\* C25 as stated: the trimmed input is classified with the precedence
\* "agpl", then "lgpl" with "3", "lgpl" with "2", then "gpl" with "3",
\* "gpl" with "2", then "apache"; every other string is returned trimmed;
\* the three Apache spellings become Apache-2.0.
C25_SubstringPrecedence ==
    /\ NormalizeLicenseApplied =>
          ret[1] = ClaimClassify(<<RuleAGPL, RuleLGPL3, RuleLGPL2, RuleGPL3, RuleGPL2, RuleApache>>,
                                 TrimSpace(arg.x))
    /\ ApacheSpellingsCollapse

\* C25 amended: "apache" is tested first, then "agpl", then "lgpl" with
\* "3", "lgpl" with "2", then "gpl" with "3", "gpl" with "2"; every other
\* string is returned trimmed; the three Apache spellings become
\* Apache-2.0.
C25_ApacheFirst ==
    /\ NormalizeLicenseApplied =>
          ret[1] = ClaimClassify(<<RuleApache, RuleAGPL, RuleLGPL3, RuleLGPL2, RuleGPL3, RuleGPL2>>,
                                 TrimSpace(arg.x))
    /\ ApacheSpellingsCollapse

C25_Witness ==
    /\ NormalizeLicenseApplied
    /\ arg.x = <<"G","P","L","-","2",".","0","+"," ","l","g","p","l">>
    /\ ret[1] = LicLGPL21

\* the positions at which no operation is between an Open and its Close
BetweenFiles ==
    {"Scan", "DetectLockFile", "DetectLockFile_return", "Parse_return", "Scan.range",
     "DetectLicense", "detectFromLicenseFile", "DetectLicense_return", "Scan_return"}

\* C26: every file handle opened by a parser or by the detector is closed
\* before the opening operation returns, on the success path and on every
\* error path; at most one handle is open at any time and none is open
\* after a parser, DetectLicense or Scan has returned.
C26_HandlesClosed ==
    /\ Cardinality(handles) <= 1
    /\ pc \in BetweenFiles => handles = {}

\* a parser has returned a read or parse failure
C26_Witness ==
    /\ pc = "Parse_return"
    /\ err \in {"failed to read package-lock.json", "failed to parse package-lock.json",
                "error reading yarn.lock", "failed to parse pnpm-lock.yaml"}
    /\ handles = {}

\* the order low < medium < high
RiskRank(level) ==
    CASE level = "low" -> 1
      [] level = "medium" -> 2
      [] level = "high" -> 3

\* Analyze has returned for the list followed by one more dependency
LongerAnalyzed == pc = "Analyze_return" /\ ret # <<>>

\* C27: the risk level of a list followed by one more dependency is at
\* least the risk level of the list (low < medium < high); in particular
\* adding a dependency with the license "Unknown" to a list with more than
\* 5 unrecognised licenses leaves the result "high".
C27_RiskMonotonic ==
    LongerAnalyzed => RiskRank(result[1].RiskLevel) >= RiskRank(ret[1])

\* the same for lists without a dependency whose license is "Unknown"
C27_WithoutUnknownBucket ==
    (LongerAnalyzed /\ ~Present(UnknownLicense)) => RiskRank(result[1].RiskLevel) >= RiskRank(ret[1])

\* C28: the risk level returned is never lower than the risk tier the
\* category table gives to a license of the input (low < medium < high);
\* in particular a list with an UNLICENSED dependency never gives "low"
\* together with the all-clear recommendation.
C28_RiskCoversTable ==
    Analyzed =>
        /\ \A i \in DOMAIN arg :
              Normalized(i) \in DOMAIN KnownLicenses =>
                  RiskRank(result[1].RiskLevel)
                      >= RiskRank(KnownLicenses[Normalized(i)].RiskLevel)
        /\ Present(LicUNLICENSED) =>
              ~(result[1].RiskLevel = "low" /\ result[1].Recommendations = <<AllClear>>)

\* the same for the licenses of the table other than UNLICENSED
C28_WithoutProprietary ==
    Analyzed =>
        \A i \in DOMAIN arg :
            (Normalized(i) \in DOMAIN KnownLicenses /\ Normalized(i) # LicUNLICENSED) =>
                RiskRank(result[1].RiskLevel)
                    >= RiskRank(KnownLicenses[Normalized(i)].RiskLevel)

\* C29: a result with conflicts has the risk level "high"; a result with
\* the risk level "low" or "medium" has no conflict and no conflict
\* summary among its recommendations.
C29_ConflictsImplyHigh ==
    Analyzed =>
        /\ result[1].Conflicts # <<>> => result[1].RiskLevel = "high"
        /\ result[1].RiskLevel \in {"low", "medium"} =>
              /\ result[1].Conflicts = <<>>
              /\ \A k \in DOMAIN result[1].Recommendations :
                    result[1].Recommendations[k] # ConflictSummary

\* AGPL-3.0 alone: one conflict, "high"
C29_Witness ==
    /\ Analyzed
    /\ \A i \in DOMAIN arg : Normalized(i) = LicAGPL30
    /\ result[1].Conflicts = <<WarnAGPL>>
    /\ result[1].RiskLevel = "high"

\* the entries of the returned result for the package a
EntriesOfA == {i \in DOMAIN result[1].Dependencies : result[1].Dependencies[i].Name = <<"a">>}

\* C30: the license a lock file gives for an entry never reaches the
\* result of Scan: two scans of a project whose package-lock.json differs
\* only in the license fields return the same entries, and a package
\* without an install directory is reported as Unknown/0.0/"not found"
\* whatever the lock file declares.  (Stated for a project with
\* package-lock.json alone and without a license file that matches two
\* patterns, where a scan has one possible result.)
C30_LockLicenseIgnored ==
    /\ (SecondScanReturned /\ OnlyLockFile("package-lock.json") /\ NoDualFile)
          => SameAsFirstScan
    /\ (/\ pc = "Scan_return"
        /\ result # <<>>
        /\ OnlyLockFile("package-lock.json")
        /\ HoistedA \notin DOMAIN fs.dirs)
          => \A i \in EntriesOfA :
                /\ result[1].Dependencies[i].License = UnknownLicense
                /\ result[1].Dependencies[i].Confidence = 0
                /\ result[1].Dependencies[i].Source = "not found"

\* the second scan of a lock file that declared MIT for a and now declares
\* GPL-3.0, with an ISC license file in the install directory of a
C30_Witness ==
    /\ SecondScanReturned
    /\ OnlyLockFile("package-lock.json")
    /\ NoDualFile
    /\ result # <<>>
    /\ \A k \in DOMAIN fs.root["package-lock.json"].content.Packages :
          fs.root["package-lock.json"].content.Packages[k].License = LicGPL30
    /\ EntriesOfA # {}
    /\ \A i \in EntriesOfA : result[1].Dependencies[i].License = LicISC
    /\ SameAsFirstScan

====
